---- MODULE Spec2Model ----
(***************************************************************************)
(* Model of the expression pipeline of the graphing calculator hook         *)
(* (src/components/calculator/hooks/useExpressionLogic.ts, latest variant,  *)
(* lines 512-1240): the lexical normaliser, the absolute-value rewriter,    *)
(* parseBounds/parseGroup, the construct classifier of processExpression    *)
(* and the directives it hands to the graphing engine.                      *)
(*                                                                          *)
(* Text is a sequence of one-character strings.  Regular expressions of the *)
(* source are written item by item and run by a backtracking matcher with   *)
(* JavaScript's leftmost, greedy/lazy semantics.                            *)
(***************************************************************************)
EXTENDS FiniteSets, Integers, Sequences, TLC

VARIABLES
    expressions,   \* React state: id -> MathExpression record
    calc,          \* the engine's expression list: directive id -> record
    helpers,       \* helpersRef.current: safeId -> latex of the HelperExpression
    observers,     \* the engine's helpers with a numericValue callback registered
    visibilityUpdateInProgress,  \* ids whose visibility update is in progress
    timers,        \* pending setTimeout callbacks that clear the flag: id -> count
    locals,        \* the locals of the last processExpression call
    arg,           \* input text of the pure-function harnesses
    res,           \* its result after one application
    res2,          \* its result after a second application
    pc             \* position of the harness

vars == <<expressions, calc, helpers, observers, visibilityUpdateInProgress, timers, locals,
          arg, res, res2, pc>>

(***************************************************************************)
(* Characters                                                              *)
(***************************************************************************)
BS == "\\"

Lower ==
    {"a","b","c","d","e","f","g","h","i","j","k","l","m",
     "n","o","p","q","r","s","t","u","v","w","x","y","z"}

Upper ==
    {"A","B","C","D","E","F","G","H","I","J","K","L","M",
     "N","O","P","Q","R","S","T","U","V","W","X","Y","Z"}

Letter == Lower \cup Upper

Digit == {"0","1","2","3","4","5","6","7","8","9"}

Space == {" ", "\t", "\n", "\r"}

\* what `.` does not match
LineBreak == {"\n", "\r"}

(***************************************************************************)
(* Regular expressions.  An item is a literal text, a character class with *)
(* a quantifier, an anchor, a negative lookahead, or the start of an       *)
(* optional group.                                                         *)
(***************************************************************************)
Item(t, text, set, neg, lo, hi, greedy, skip) ==
    [t |-> t, text |-> text, set |-> set, neg |-> neg, lo |-> lo, hi |-> hi,
     greedy |-> greedy, skip |-> skip]

\* a literal text
Lit(text) == Item("lit", text, {}, FALSE, 0, 0, TRUE, 0)
\* exactly one character of `set`
One(set) == Item("cls", <<>>, set, FALSE, 1, 1, TRUE, 0)
\* exactly one character not in `set`
NotOne(set) == Item("cls", <<>>, set, TRUE, 1, 1, TRUE, 0)
\* set?  (greedy)
Opt(set) == Item("cls", <<>>, set, FALSE, 0, 1, TRUE, 0)
\* set*  (greedy)
Star(set) == Item("cls", <<>>, set, FALSE, 0, -1, TRUE, 0)
\* set+  (greedy)
Plus(set) == Item("cls", <<>>, set, FALSE, 1, -1, TRUE, 0)
\* [^set]* and [^set]+ (greedy), [^set]*? (lazy)
NotStar(set) == Item("cls", <<>>, set, TRUE, 0, -1, TRUE, 0)
NotPlus(set) == Item("cls", <<>>, set, TRUE, 1, -1, TRUE, 0)
NotStarLazy(set) == Item("cls", <<>>, set, TRUE, 0, -1, FALSE, 0)
\* ^ and $
Bos == Item("bos", <<>>, {}, FALSE, 0, 0, TRUE, 0)
Eos == Item("eos", <<>>, {}, FALSE, 0, 0, TRUE, 0)
\* (?![set])
NotAhead(set) == Item("nla", <<>>, set, FALSE, 0, 0, TRUE, 0)
\* ( ... )? greedy: the group's items follow; `skip` is the index of the
\* first item after the group
OptGroup(skip) == Item("opt", <<>>, {}, FALSE, 0, 0, TRUE, skip)

Min(S) == CHOOSE x \in S : \A y \in S : x <= y
Max(S) == CHOOSE x \in S : \A y \in S : y <= x

\* p followed by the positions r of the rest, when the rest matched
Cons(p, r) == IF r = <<>> THEN <<>> ELSE <<p>> \o r

(***************************************************************************)
(* MatchAt(items, s, p): the match of the item sequence starting exactly   *)
(* at position p of s, as the sequence of the positions where each item    *)
(* starts followed by the end position (0 for an item of a skipped         *)
(* optional group); <<>> when there is none.  The match chosen is          *)
(* JavaScript's: a greedy quantifier takes the longest run with which the  *)
(* rest matches, a lazy one the shortest, and an optional group is taken   *)
(* when the rest matches with it.                                          *)
(***************************************************************************)
\* the longest run of the item's class from q on, within the item's maximum
Run(it, s, q) ==
    Max({c \in 0..(IF it.hi < 0 THEN Len(s) + 1 - q ELSE Min({it.hi, Len(s) + 1 - q})) :
            \A j \in 0..(c - 1) : (s[q + j] \in it.set) # it.neg})

\* a quantified class at p: of the pairs <<run length, match of the rest>>
\* the one the quantifier takes, the longest when greedy, else the shortest
Pick(p, all, greedy) ==
    IF \A x \in all : x[2] = <<>> THEN <<>>
    ELSE <<p>> \o (CHOOSE x \in all :
                      /\ x[2] # <<>>
                      /\ \A y \in all : y[2] # <<>> =>
                             IF greedy THEN y[1] <= x[1] ELSE x[1] <= y[1])[2]

\* an optional group at p: r is the match with the group, r2 the match without
OptItem(p, r, r2, skipped) ==
    IF r # <<>> THEN <<p>> \o r
    ELSE IF r2 = <<>> THEN <<>>
    ELSE <<p>> \o [i \in 1..skipped |-> 0] \o r2

\* item k at position p, M[k'][p'] being the match of the items from k' on at p'
MatchItem(items, k, s, p, M) ==
    CASE k > Len(items) -> <<p>>
      [] items[k].t = "lit" ->
            IF /\ p + Len(items[k].text) <= Len(s) + 1
               /\ SubSeq(s, p, p + Len(items[k].text) - 1) = items[k].text
            THEN Cons(p, M[k + 1][p + Len(items[k].text)]) ELSE <<>>
      [] items[k].t = "cls" ->
            Pick(p, {<<c, M[k + 1][p + c]>> : c \in items[k].lo..Run(items[k], s, p)},
                 items[k].greedy)
      [] items[k].t = "bos" -> IF p = 1 THEN Cons(p, M[k + 1][p]) ELSE <<>>
      [] items[k].t = "eos" -> IF p = Len(s) + 1 THEN Cons(p, M[k + 1][p]) ELSE <<>>
      [] items[k].t = "nla" ->
            IF p <= Len(s) /\ s[p] \in items[k].set THEN <<>> ELSE Cons(p, M[k + 1][p])
      [] items[k].t = "opt" ->
            OptItem(p, M[k + 1][p], M[items[k].skip][p], items[k].skip - k - 1)

MatchAt(items, s, p0) ==
    LET M[k \in 1..(Len(items) + 1)] ==
            [p \in 1..(Len(s) + 1) |-> MatchItem(items, k, s, p, M)]
    IN M[1][p0]

\* A pattern is a sequence of alternatives tried in order at each position;
\* an alternative has items, capture groups (first item, last item) and the
\* replacement template (literal texts and group references).
Alt(items, groups, tmpl) == [items |-> items, groups |-> groups, tmpl |-> tmpl]

T(text) == [g |-> 0, lit |-> text]
G(k) == [g |-> k, lit |-> <<>>]

\* of pairs <<number, value>>, the one with the least number
Leftmost(ok) == CHOOSE x \in ok : \A y \in ok : x[1] <= y[1]

\* the first of the alternatives that matched: [a |-> its index, pos |-> positions]
AsMatch(ok) ==
    IF ok = {} THEN [a |-> 0, pos |-> <<>>]
    ELSE [a |-> Leftmost(ok)[1], pos |-> Leftmost(ok)[2]]

\* the first alternative matching at p: [a |-> its index or 0, pos |-> positions]
FirstAlt(pat, s, p) ==
    AsMatch({m \in {<<a, MatchAt(pat[a].items, s, p)>> : a \in 1..Len(pat)} : m[2] # <<>>})

MatchEnd(m) == m.pos[Len(m.pos)]

\* the text of capture group k of a match ("" when the group did not take part)
Group(alt, s, pos, k) ==
    IF pos[alt.groups[k][1]] = 0 \/ pos[alt.groups[k][2] + 1] = 0 THEN <<>>
    ELSE SubSeq(s, pos[alt.groups[k][1]], pos[alt.groups[k][2] + 1] - 1)

Expand(alt, s, pos) ==
    LET e[i \in 1..(Len(alt.tmpl)+1)] ==
            IF i > Len(alt.tmpl) THEN <<>>
            ELSE (IF alt.tmpl[i].g = 0 THEN alt.tmpl[i].lit
                  ELSE Group(alt, s, pos, alt.tmpl[i].g)) \o e[i + 1]
    IN e[1]

\* the non-empty matches of pat in s, by start position
Matches(pat, s) ==
    {h \in {<<p, FirstAlt(pat, s, p)>> : p \in 1..Len(s)} :
        h[2].a # 0 /\ MatchEnd(h[2]) > h[1]}

\* s from p on, the matches `later` at or after p replaced left to right,
\* R[q] being the result from q on
Splice(pat, s, p, later, R) ==
    IF later = {} THEN SubSeq(s, p, Len(s))
    ELSE SubSeq(s, p, Leftmost(later)[1] - 1)
         \o Expand(pat[Leftmost(later)[2].a], s, Leftmost(later)[2].pos)
         \o R[MatchEnd(Leftmost(later)[2])]

\* s with the matches H replaced, each search resuming where the last match ended
Rebuild(pat, s, H) ==
    LET R[p \in 1..(Len(s) + 1)] == Splice(pat, s, p, {h \in H : h[1] >= p}, R)
    IN R[1]

\* String.prototype.replace with a /g regular expression: the matches are
\* taken left to right, each search resuming where the last match ended
ReplaceAll(pat, s) == Rebuild(pat, s, Matches(pat, s))

\* the leftmost of the matches found, [a, pos] (a = 0: null)
AsFound(ok) == IF ok = {} THEN [a |-> 0, pos |-> <<>>] ELSE Leftmost(ok)[2]

\* String.prototype.match without /g: the leftmost match, [a, pos] (a = 0: null)
Search(pat, s) ==
    AsFound({h \in {<<p, FirstAlt(pat, s, p)>> : p \in 1..(Len(s) + 1)} : h[2].a # 0})

\* s with the match m, if any, replaced
SpliceFirst(pat, s, m) ==
    IF m.a = 0 THEN s
    ELSE SubSeq(s, 1, m.pos[1] - 1) \o Expand(pat[m.a], s, m.pos)
         \o SubSeq(s, MatchEnd(m), Len(s))

\* String.prototype.replace with a regular expression without /g
ReplaceFirst(pat, s) == SpliceFirst(pat, s, Search(pat, s))

\* a /g replacement of a literal text by a literal text
Literal(text, by) == <<Alt(<<Lit(text)>>, <<>>, <<T(by)>>)>>

(***************************************************************************)
(* String methods                                                          *)
(***************************************************************************)
StartsWith(s, t) == Len(s) >= Len(t) /\ SubSeq(s, 1, Len(t)) = t

EndsWith(s, t) == Len(s) >= Len(t) /\ SubSeq(s, Len(s) - Len(t) + 1, Len(s)) = t

\* s.substring(from, to) with 0-based offsets, as in the source
Substring(s, from, to) == SubSeq(s, from + 1, to)

\* s.trim()
Trim(s) ==
    LET ink == {i \in 1..Len(s) : s[i] \notin Space}
    IN IF ink = {} THEN <<>> ELSE SubSeq(s, Min(ink), Max(ink))

\* s.lastIndexOf(t), 0-based, -1 when absent
LastIndexOf(s, t) ==
    LET at == {i \in 0..(Len(s) - Len(t)) : SubSeq(s, i + 1, i + Len(t)) = t}
    IN IF at = {} THEN -1 ELSE Max(at)

\* s.includes(t)
Includes(s, t) == LastIndexOf(s, t) # -1

\* s.split(c).length for a one-character separator c
SplitCount(s, c) == Cardinality({i \in 1..Len(s) : s[i] = c}) + 1

\* s.split(t).join(by)
SplitJoin(s, t, by) == ReplaceAll(Literal(t, by), s)

(***************************************************************************)
(* Texts of the source's literals                                          *)
(***************************************************************************)
tMathrmOpen == <<BS,"m","a","t","h","r","m","{">>
tTextOpen == <<BS,"t","e","x","t","{">>
tOperatornameOpen == <<BS,"o","p","e","r","a","t","o","r","n","a","m","e","{">>
tLeft == <<BS,"l","e","f","t">>
tRight == <<BS,"r","i","g","h","t">>
tLeftBar == <<BS,"l","e","f","t","|">>
tRightBar == <<BS,"r","i","g","h","t","|">>
tVert == <<BS,"v","e","r","t">>
tAbs == <<"a","b","s">>
tFrac == <<BS,"f","r","a","c">>
tLog == <<BS,"l","o","g">>
tSum == <<BS,"s","u","m">>
tInt == <<BS,"i","n","t">>

\* (sin|cos|tan|cot|sec|csc) of the \mathrm rewrites, in the source's order
trigNames ==
    << <<"s","i","n">>, <<"c","o","s">>, <<"t","a","n">>,
       <<"c","o","t">>, <<"s","e","c">>, <<"c","s","c">> >>

\* const funcs = ["sin", "cos", "tan", "sec", "csc", "cot", "ln", "log", "exp"]
funcs ==
    << <<"s","i","n">>, <<"c","o","s">>, <<"t","a","n">>,
       <<"s","e","c">>, <<"c","s","c">>, <<"c","o","t">>,
       <<"l","n">>, <<"l","o","g">>, <<"e","x","p">> >>

\* apply the /g replacements of `pats` to s, in order
ChainStep(pat, prev) == IF prev = <<>> THEN <<>> ELSE ReplaceAll(pat, prev)

Chain(pats, s) ==
    LET f[i \in 0..Len(pats)] == IF i = 0 THEN s ELSE ChainStep(pats[i], f[i - 1])
    IN f[Len(pats)]

(***************************************************************************)
(* processExpression, step 3 "Minimal Cleaning" (lines 573-587)            *)
(***************************************************************************)
\* /\\mathrm\{d([a-zA-Z])\}/g -> "d$1"
rxMathrmDVar ==
    <<Alt(<<Lit(tMathrmOpen \o <<"d">>), One(Letter), Lit(<<"}">>)>>,
          << <<2, 2>> >>, <<T(<<"d">>), G(1)>>)>>

minimalCleaningRules ==
    << Literal(<<BS,"b","i","g","m">>, <<>>),
       Literal(<<BS,"!">>, <<>>),
       Literal(<<BS,",">>, <<" ">>),
       Literal(<<BS,":">>, <<" ">>),
       Literal(<<BS,";">>, <<" ">>),
       Literal(<<BS,"l","i","m","i","t","s">>, <<>>),
       Literal(<<BS,"d","i","f","f","e","r","e","n","t","i","a","l","D">>, <<"d">>),
       Literal(tMathrmOpen \o <<"d","x","}">>, <<"d","x">>),
       rxMathrmDVar,
       Literal(tMathrmOpen \o <<"d","}">>, <<"d">>),
       Literal(tTextOpen \o <<"d","x","}">>, <<"d","x">>),
       Literal(tTextOpen \o <<"d","}">>, <<"d">>),
       Literal(tOperatornameOpen \o <<"d","}">>, <<"d">>),
       Literal(<<BS,"d","f","r","a","c">>, tFrac) >>

minimalCleaning(rawLatex) == Trim(Chain(minimalCleaningRules, rawLatex))

\* clean.replace(/\\log_(\d+)/g, "\\log_{$1}")   (line 590)
rxLogBase ==
    <<Alt(<<Lit(tLog \o <<"_">>), Plus(Digit)>>,
          << <<2, 2>> >>, <<T(tLog \o <<"_","{">>), G(1), T(<<"}">>)>>)>>

fixLogBases(clean) == ReplaceAll(rxLogBase, clean)

\* \left( -> ( and \right) -> )   (lines 602-604)
normalizeRoundParens(clean) ==
    Chain(<<Literal(tLeft \o <<"(">>, <<"(">>), Literal(tRight \o <<")">>, <<")">>)>>, clean)

(***************************************************************************)
(* Malformed \mathrm{} blocks (lines 611-619)                              *)
(***************************************************************************)
\* /\\mathrm\{\\?(sin|..)\^\{?([^}\s]+)\}?([a-zA-Z])\s*d\}/g -> '\\$1^{$2}$3 d'
rxMathrmTrigPower ==
    [a \in 1..Len(trigNames) |->
        Alt(<<Lit(tMathrmOpen), Opt({BS}), Lit(trigNames[a]),
              Lit(<<"^">>), Opt({"{"}), NotPlus({"}", " "}), Opt({"}"}),
              One(Letter), Star(Space), Lit(<<"d","}">>)>>,
            << <<3, 3>>, <<6, 6>>, <<8, 8>> >>,
            <<T(<<BS>>), G(1), T(<<"^","{">>), G(2), T(<<"}">>), G(3), T(<<" ","d">>)>>)]

\* /\\mathrm\{\\?(sin|..)([a-zA-Z])\s*d\}/g -> '\\$1 $2 d'
rxMathrmTrigVar ==
    [a \in 1..Len(trigNames) |->
        Alt(<<Lit(tMathrmOpen), Opt({BS}), Lit(trigNames[a]),
              One(Letter), Star(Space), Lit(<<"d","}">>)>>,
            << <<3, 3>>, <<4, 4>> >>,
            <<T(<<BS>>), G(1), T(<<" ">>), G(2), T(<<" ","d">>)>>)]

\* /\\mathrm\{\\?(sin|..)\s*\(([^)]+)\)\s*d\}/g -> '\\$1($2) d'
rxMathrmTrigCall ==
    [a \in 1..Len(trigNames) |->
        Alt(<<Lit(tMathrmOpen), Opt({BS}), Lit(trigNames[a]),
              Star(Space), Lit(<<"(">>), NotPlus({")"}), Lit(<<")">>),
              Star(Space), Lit(<<"d","}">>)>>,
            << <<3, 3>>, <<6, 6>> >>,
            <<T(<<BS>>), G(1), T(<<"(">>), G(2), T(<<")"," ","d">>)>>)]

\* /\\mathrm\{([^}]+)\}/g -> '$1'
rxMathrmAny ==
    <<Alt(<<Lit(tMathrmOpen), NotPlus({"}"}), Lit(<<"}">>)>>,
          << <<2, 2>> >>, <<G(1)>>)>>

unwrapMathrm(clean) ==
    Chain(<<rxMathrmTrigPower, rxMathrmTrigVar, rxMathrmTrigCall, rxMathrmAny>>, clean)

(***************************************************************************)
(* Absolute value normalisation (lines 624-634)                            *)
(***************************************************************************)
toBars == <<T(tLeftBar), G(1), T(tRightBar)>>

\* /\\mathrm\{\\?abs\}\s*\\left\(([^)]*?)\\right\)/g
rxMathrmAbsLeft ==
    <<Alt(<<Lit(tMathrmOpen), Opt({BS}), Lit(tAbs \o <<"}">>), Star(Space),
            Lit(tLeft \o <<"(">>), NotStarLazy({")"}), Lit(tRight \o <<")">>)>>,
          << <<6, 6>> >>, toBars)>>

\* /\\mathrm\{\\?abs\}\s*\(([^)]*?)\)/g
rxMathrmAbsParen ==
    <<Alt(<<Lit(tMathrmOpen), Opt({BS}), Lit(tAbs \o <<"}">>), Star(Space),
            Lit(<<"(">>), NotStarLazy({")"}), Lit(<<")">>)>>,
          << <<6, 6>> >>, toBars)>>

\* /\\mathrm\{\\?abs\}\s*\{([^}]*?)\}/g
rxMathrmAbsBrace ==
    <<Alt(<<Lit(tMathrmOpen), Opt({BS}), Lit(tAbs \o <<"}">>), Star(Space),
            Lit(<<"{">>), NotStarLazy({"}"}), Lit(<<"}">>)>>,
          << <<6, 6>> >>, toBars)>>

\* /\\operatorname\{abs\}\s*\\left\(([^)]*?)\\right\)/g
rxOperatornameAbsLeft ==
    <<Alt(<<Lit(tOperatornameOpen \o tAbs \o <<"}">>), Star(Space),
            Lit(tLeft \o <<"(">>), NotStarLazy({")"}), Lit(tRight \o <<")">>)>>,
          << <<4, 4>> >>, toBars)>>

\* /\\operatorname\{abs\}\s*\(([^)]*?)\)/g
rxOperatornameAbsParen ==
    <<Alt(<<Lit(tOperatornameOpen \o tAbs \o <<"}">>), Star(Space),
            Lit(<<"(">>), NotStarLazy({")"}), Lit(<<")">>)>>,
          << <<4, 4>> >>, toBars)>>

\* /\\left\\vert\s*/g, /\\right\\vert\s*/g, /\\lvert\s*/g, /\\rvert\s*/g
rxLeftVert == <<Alt(<<Lit(tLeft \o tVert), Star(Space)>>, <<>>, <<T(tLeftBar)>>)>>
rxRightVert == <<Alt(<<Lit(tRight \o tVert), Star(Space)>>, <<>>, <<T(tRightBar)>>)>>
rxLvert == <<Alt(<<Lit(<<BS,"l","v","e","r","t">>), Star(Space)>>, <<>>, <<T(tLeftBar)>>)>>
rxRvert == <<Alt(<<Lit(<<BS,"r","v","e","r","t">>), Star(Space)>>, <<>>, <<T(tRightBar)>>)>>

\* /\\vert\s*([^\\]*?)\\vert/g
rxVertPair ==
    <<Alt(<<Lit(tVert), Star(Space), NotStarLazy({BS}), Lit(tVert)>>,
          << <<3, 3>> >>, toBars)>>

\* /\\abs\s*\{([^}]*)\}/g
rxAbsBrace ==
    <<Alt(<<Lit(<<BS>> \o tAbs), Star(Space), Lit(<<"{">>), NotStar({"}"}), Lit(<<"}">>)>>,
          << <<4, 4>> >>, toBars)>>

absRules ==
    <<rxMathrmAbsLeft, rxMathrmAbsParen, rxMathrmAbsBrace,
      rxOperatornameAbsLeft, rxOperatornameAbsParen,
      rxLeftVert, rxRightVert, rxLvert, rxRvert, rxVertPair, rxAbsBrace>>

namedAbsToBars(clean) == Chain(absRules, clean)

(***************************************************************************)
(* convertSimplePipes (lines 636-672); offsets are the source's, 0-based   *)
(***************************************************************************)
\* the bar at offset i follows \left or \right
afterLeftOrRight(str, i) ==
    LET before == Substring(str, Max({0, i - 6}), i)
    IN EndsWith(before, tLeft) \/ EndsWith(before, tRight)

convertSimplePipes(str) ==
    LET L == Len(str)
        bars == {i \in 0..(L - 1) : str[i + 1] = "|"}
        \* the bars the inner loop counts as closing
        closers == {j \in bars : ~afterLeftOrRight(str, j)}
        \* the text from offset i on, converted
        conv[i \in 0..L] ==
            LET next == {b \in bars : b >= i}
                b == Min(next)
                close == {j \in closers : j > b}
            IN IF next = {} THEN Substring(str, i, L)
               ELSE IF afterLeftOrRight(str, b) \/ close = {}
               THEN Substring(str, i, b + 1) \o conv[b + 1]
               ELSE Substring(str, i, b) \o tLeftBar
                    \o Substring(str, b + 1, Min(close)) \o tRightBar
                    \o conv[Min(close) + 1]
    IN conv[0]

\* the absolute-value rewriter: the named forms, then the bare bars
rewriteAbs(clean) == convertSimplePipes(namedAbsToBars(clean))

(***************************************************************************)
(* Function-name escaping (lines 675-679)                                  *)
(***************************************************************************)
\* variant: the name is not required to end its identifier
rxFuncNoLookahead(f) ==
    <<Alt(<<Bos, Lit(f)>>,
          << <<1, 1>>, <<2, 2>> >>, <<G(1), T(<<BS>>), G(2)>>),
      Alt(<<NotOne({BS} \cup Letter), Lit(f)>>,
          << <<1, 1>>, <<2, 2>> >>, <<G(1), T(<<BS>>), G(2)>>)>>

\* new RegExp(`(^|[^\\\\a-zA-Z])(${f})(?![a-zA-Z])`, "g") -> "$1\\$2"
rxFunc(f) ==
    <<Alt(<<Bos, Lit(f), NotAhead(Letter)>>,
          << <<1, 1>>, <<2, 2>> >>, <<G(1), T(<<BS>>), G(2)>>),
      Alt(<<NotOne({BS} \cup Letter), Lit(f), NotAhead(Letter)>>,
          << <<1, 1>>, <<2, 2>> >>, <<G(1), T(<<BS>>), G(2)>>)>>

escapeFunctions(clean) == Chain([i \in 1..Len(funcs) |-> rxFunc(funcs[i])], clean)

\* the text as it reaches the function-name escaping (lines 573-673)
beforeEscaping(rawLatex) ==
    rewriteAbs(unwrapMathrm(normalizeRoundParens(fixLogBases(minimalCleaning(rawLatex)))))

\* the text processExpression calls `clean` (lines 573-679)
cleanLatex(rawLatex) == escapeFunctions(beforeEscaping(rawLatex))

\* the lexical normaliser alone: the chain without the absolute-value rewriter
normalizeLexical(rawLatex) ==
    escapeFunctions(unwrapMathrm(normalizeRoundParens(
        fixLogBases(minimalCleaning(rawLatex)))))

(***************************************************************************)
(* parseBounds and its helpers (lines 684-733); offsets are 0-based        *)
(***************************************************************************)
\* skipSpace: the first offset from i on that holds no white space
skipSpace(str, i) ==
    LET ink == {j \in i..(Len(str) - 1) : str[j + 1] \notin Space}
    IN IF ink = {} THEN Max({i, Len(str)}) ELSE Min(ink)

\* parseGroup at offset i0: the group's text and the offset after it
parseGroup(str, i0) ==
    LET L == Len(str)
        i == skipSpace(str, i0)
        \* the brace depth after the character at offset j, the group opening at i
        depthAfter(j) ==
            1 + Cardinality({k \in (i + 1)..j : str[k + 1] = "{"})
              - Cardinality({k \in (i + 1)..j : str[k + 1] = "}"})
        closed == {j \in (i + 1)..(L - 1) : depthAfter(j) = 0}
        notLetter == {j \in (i + 1)..(L - 1) : str[j + 1] \notin Letter}
        cmdEnd == IF notLetter = {} THEN L ELSE Min(notLetter)
    IN IF i >= L THEN [val |-> <<>>, i |-> i]
       ELSE IF str[i + 1] = "{"
       THEN (IF closed = {} THEN [val |-> <<>>, i |-> L]
             ELSE [val |-> Substring(str, i + 1, Min(closed)), i |-> Min(closed) + 1])
       ELSE IF str[i + 1] = BS
       THEN [val |-> Substring(str, i, cmdEnd), i |-> cmdEnd]
       ELSE [val |-> <<str[i + 1]>>, i |-> i + 1]

\* variant: a superscript is taken only after a subscript
boundsStepSubscriptFirst(str, b) ==
    LET i == skipSpace(str, b.end)
        g == parseGroup(str, i + 1)
    IN IF b.stop THEN b
       ELSE IF i >= Len(str) THEN [b EXCEPT !.end = i, !.stop = TRUE]
       ELSE IF str[i + 1] = "_"
       THEN [min |-> g.val, max |-> b.max, end |-> g.i, stop |-> FALSE]
       ELSE IF str[i + 1] = "^" /\ b.min # <<>>
       THEN [min |-> b.min, max |-> g.val, end |-> g.i, stop |-> FALSE]
       ELSE [b EXCEPT !.end = i, !.stop = TRUE]

\* one turn of the loop `for (let step = 0; step < 2; step++)`
boundsStep(str, b) ==
    LET i == skipSpace(str, b.end)
        g == parseGroup(str, i + 1)
    IN IF b.stop THEN b
       ELSE IF i >= Len(str) THEN [b EXCEPT !.end = i, !.stop = TRUE]
       ELSE IF str[i + 1] = "_"
       THEN [min |-> g.val, max |-> b.max, end |-> g.i, stop |-> FALSE]
       ELSE IF str[i + 1] = "^"
       THEN [min |-> b.min, max |-> g.val, end |-> g.i, stop |-> FALSE]
       ELSE [b EXCEPT !.end = i, !.stop = TRUE]

\* variant: the subscript and the superscript change places
parseBoundsSwapped(startIdx, str) ==
    LET b0 == [min |-> <<>>, max |-> <<>>, end |-> startIdx, stop |-> FALSE]
        b1 == boundsStep(str, b0)
        b2 == boundsStep(str, b1)
    IN [min |-> b2.max, max |-> b2.min, end |-> b2.end]

parseBounds(startIdx, str) ==
    LET b0 == [min |-> <<>>, max |-> <<>>, end |-> startIdx, stop |-> FALSE]
        b1 == boundsStep(str, b0)
        b2 == boundsStep(str, b1)
    IN [min |-> b2.min, max |-> b2.max, end |-> b2.end]

(***************************************************************************)
(* processExpression: the branches' text processing (lines 735-1032)       *)
(***************************************************************************)
\* rest of BRANCH B (lines 759-763)
rxSpaces == <<Alt(<<Plus(Space)>>, <<>>, <<T(<<" ">>)>>)>>

integralRest(clean, end) ==
    Trim(Chain(<<Literal(<<BS,",">>, <<>>), Literal(<<BS,"!">>, <<>>), rxSpaces>>,
               Trim(Substring(clean, end, Len(clean)))))

\* /\s?d\s?(\\?[a-zA-Z])$/   (line 768)
rxDifferential ==
    <<Alt(<<Opt(Space), Lit(<<"d">>), Opt(Space), Opt({BS}), One(Letter), Eos>>,
          << <<4, 5>> >>, <<>>)>>

\* new RegExp(`\\s?d\\s?${rawVariable.replace('\\', '\\\\')}$`)   (line 773)
dPattern(rawVariable) ==
    <<Alt(<<Opt(Space), Lit(<<"d">>), Opt(Space), Lit(rawVariable), Eos>>, <<>>, <<>>)>>

\* .replace(/\\left\s*/g, "").replace(/\\right\s*/g, "")
rxLeftSp == <<Alt(<<Lit(tLeft), Star(Space)>>, <<>>, <<>>)>>
rxRightSp == <<Alt(<<Lit(tRight), Star(Space)>>, <<>>, <<>>)>>
rxBiglSp == <<Alt(<<Lit(<<BS,"b","i","g","l">>), Star(Space)>>, <<>>, <<>>)>>
rxBigrSp == <<Alt(<<Lit(<<BS,"b","i","g","r">>), Star(Space)>>, <<>>, <<>>)>>
rxBigLSp == <<Alt(<<Lit(<<BS,"B","i","g","l">>), Star(Space)>>, <<>>, <<>>)>>
rxBigRSp == <<Alt(<<Lit(<<BS,"B","i","g","r">>), Star(Space)>>, <<>>, <<>>)>>

\* cleanMin / cleanMax (lines 777-778)
cleanBound(bound) == Trim(Chain(<<rxLeftSp, rxRightSp>>, bound))

\* rawVariable === 'x' ? body : body.split(rawVariable).join("x")
substituteX(body, rawVariable) ==
    IF rawVariable = <<"x">> THEN body ELSE SplitJoin(body, rawVariable, <<"x">>)

\* the outermost parenthesis pair of plotBody is redundant (lines 790-804)
isOuterPair(plotBody) ==
    LET depthAfter(i) ==
            Cardinality({k \in 0..i : plotBody[k + 1] = "("})
            - Cardinality({k \in 0..i : plotBody[k + 1] = ")"})
    IN \A i \in 0..(Len(plotBody) - 2) : depthAfter(i) # 0

\* plotBody of the definite integral (lines 780-804)
definitePlotBody(body, rawVariable) ==
    LET stripped == Trim(Chain(<<rxLeftSp, rxRightSp, rxBiglSp, rxBigrSp, rxBigLSp, rxBigRSp>>,
                               substituteX(body, rawVariable)))
    IN IF StartsWith(stripped, <<"(">>) /\ EndsWith(stripped, <<")">>) /\ isOuterPair(stripped)
       THEN Trim(Substring(stripped, 1, Len(stripped) - 1))
       ELSE stripped

\* plotOriginal of the indefinite integral (lines 838-842)
indefinitePlotBody(body, rawVariable) ==
    Trim(Chain(<<rxLeftSp, rxRightSp>>, substituteX(body, rawVariable)))

\* derivRegex (line 874); groups [1]..[6] as in the source's comment
derivRegex ==
    <<Alt(<<Bos, Lit(tFrac), Star(Space), Lit(<<"{">>), Star(Space), Lit(<<"d">>),
            OptGroup(12), Lit(<<"^">>), Opt({"{"}), Plus(Digit), Opt({"}"}),
            Star(Space), Lit(<<"}">>), Star(Space), Lit(<<"{">>), Star(Space),
            Lit(<<"d">>), Star(Space), Opt({BS}), Plus(Letter),
            OptGroup(26), Lit(<<"^">>), Opt({"{"}), Plus(Digit), Opt({"}"}),
            Star(Space), Lit(<<"}">>), Star(Space), NotPlus(LineBreak), Eos>>,
          << <<8, 11>>, <<10, 10>>, <<19, 20>>, <<22, 25>>, <<24, 24>>, <<29, 29>> >>,
          <<>>)>>

\* parseInt of a text of decimal digits
digitValue(c) ==
    CASE c = "0" -> 0 [] c = "1" -> 1 [] c = "2" -> 2 [] c = "3" -> 3 [] c = "4" -> 4
      [] c = "5" -> 5 [] c = "6" -> 6 [] c = "7" -> 7 [] c = "8" -> 8 [] c = "9" -> 9

parseInt(digits) ==
    LET v[i \in 0..Len(digits)] == IF i = 0 THEN 0 ELSE 10 * v[i - 1] + digitValue(digits[i])
    IN v[Len(digits)]

\* /\\placeholder\{[^}]*\}/g
rxPlaceholder ==
    <<Alt(<<Lit(<<BS,"p","l","a","c","e","h","o","l","d","e","r","{">>),
            NotStar({"}"}), Lit(<<"}">>)>>, <<>>, <<>>)>>

\* variable.replace(/^\\/, '')
stripBackslash(v) == IF StartsWith(v, <<BS>>) THEN SubSeq(v, 2, Len(v)) ELSE v

\* variant: the variable of the suffix is not compared
evaluationSuffixAnyVariable(content, variable) ==
    LET barIndex == LastIndexOf(content, <<"|","_","{">>)
        possibleBody == Trim(Substring(content, 0, barIndex))
        evalPart == Substring(content, barIndex + 3, Len(content) - 1)
        eq == Min({i \in 1..Len(evalPart) : evalPart[i] = "="})
        found == /\ barIndex # -1
                 /\ EndsWith(Trim(content), <<"}">>)
                 /\ SplitCount(evalPart, "=") = 2
    IN IF found
       THEN [isEvaluation |-> TRUE,
             targetVal |-> Trim(SubSeq(evalPart, eq + 1, Len(evalPart))),
             body |-> possibleBody]
       ELSE [isEvaluation |-> FALSE, targetVal |-> <<>>, body |-> content]

\* the evaluation suffix |_{var=value} of a derivative's content (lines 885-904)
evaluationSuffix(content, variable) ==
    LET barIndex == LastIndexOf(content, <<"|","_","{">>)
        possibleBody == Trim(Substring(content, 0, barIndex))
        evalPart == Substring(content, barIndex + 3, Len(content) - 1)
        eq == Min({i \in 1..Len(evalPart) : evalPart[i] = "="})
        evalVar == stripBackslash(Trim(SubSeq(evalPart, 1, eq - 1)))
        found == /\ barIndex # -1
                 /\ EndsWith(Trim(content), <<"}">>)
                 /\ SplitCount(evalPart, "=") = 2
                 /\ evalVar = stripBackslash(variable)
    IN IF found
       THEN [isEvaluation |-> TRUE,
             targetVal |-> Trim(SubSeq(evalPart, eq + 1, Len(evalPart))),
             body |-> possibleBody]
       ELSE [isEvaluation |-> FALSE, targetVal |-> <<>>, body |-> content]

\* BRANCH D: a trailing differential is dropped from a plain text (lines 976-979)
rxTrailingDxyz == <<Alt(<<Lit(<<"d">>), One({"x","y","z"}), Eos>>, <<>>, <<>>)>>

plainLatex(clean) ==
    IF ~StartsWith(clean, tInt) /\ ~StartsWith(clean, tFrac) /\ EndsWith(clean, <<"d","x">>)
    THEN ReplaceFirst(rxTrailingDxyz, clean)
    ELSE clean

\* /[^a-zA-Z]x[^a-zA-Z]|^x[^a-zA-Z]|[^a-zA-Z]x$|^x$/   (line 991)
rxHasX ==
    <<Alt(<<NotOne(Letter), Lit(<<"x">>), NotOne(Letter)>>, <<>>, <<>>),
      Alt(<<Bos, Lit(<<"x">>), NotOne(Letter)>>, <<>>, <<>>),
      Alt(<<NotOne(Letter), Lit(<<"x">>), Eos>>, <<>>, <<>>),
      Alt(<<Bos, Lit(<<"x">>), Eos>>, <<>>, <<>>)>>

\* /^-?\d+\.?\d*$/   (line 993)
rxJustNumber ==
    <<Alt(<<Bos, Opt({"-"}), Plus(Digit), Opt({"."}), Star(Digit), Eos>>, <<>>, <<>>)>>

\* the y= prefix of an expression in x that is no definition (lines 990-999)
autoGraph(finalLatex) ==
    LET hasEquals == Includes(finalLatex, <<"=">>)
        hasX == Search(rxHasX, finalLatex).a # 0 \/ Includes(finalLatex, <<"(","x",")">>)
        isJustNumber == Search(rxJustNumber, Trim(finalLatex)).a # 0
    IN IF ~hasEquals /\ hasX /\ ~isJustNumber THEN <<"y","=">> \o finalLatex ELSE finalLatex

\* checkStr (lines 1027-1029): commands and known names removed
rxCommand == <<Alt(<<Lit(<<BS>>), Plus(Letter)>>, <<>>, <<>>)>>

knownNames ==
    << <<"s","i","n">>, <<"c","o","s">>, <<"t","a","n">>, <<"c","o","t">>,
       <<"s","e","c">>, <<"c","s","c">>, <<"l","n">>, <<"l","o","g">>,
       <<"e","x","p">>, <<"s","q","r","t">>, <<"a","b","s">>, <<"p","i">>,
       <<"e">>, <<"t","h","e","t","a">>, <<"f","l","o","o","r">>,
       <<"c","e","i","l">>, <<"r","o","u","n","d">>, <<"s","g","n">>,
       <<"m","i","n">>, <<"m","a","x">>, <<"g","c","d">>, <<"l","c","m">>,
       <<"m","o","d">>, <<"n","C","r">>, <<"n","P","r">> >>

rxKnownNames == [a \in 1..Len(knownNames) |-> Alt(<<Lit(knownNames[a])>>, <<>>, <<>>)]

hasFreeVars(clean) ==
    LET checkStr == Chain(<<rxCommand, rxKnownNames>>, clean)
    IN \E i \in 1..Len(checkStr) : checkStr[i] \in Letter

(***************************************************************************)
(* processExpression: everything it derives from the text alone            *)
(***************************************************************************)
\* variant: one bound is enough
eitherBound(bounds) == bounds.min # <<>> \/ bounds.max # <<>>

\* `bounds.min && bounds.max`: both bounds were found and are non-empty
bothBounds(bounds) == bounds.min # <<>> /\ bounds.max # <<>>

\* variant: a summation with one bound is taken
sumMatchesOneBound(clean) ==
    LET b == parseBounds(4, clean)
    IN StartsWith(clean, tSum) /\ (b.min # <<>> \/ b.max # <<>>)

\* BRANCH A is taken (lines 741-743)
sumMatches(clean) == StartsWith(clean, tSum) /\ bothBounds(parseBounds(4, clean))

\* variant: no order mark gives order 0
derivativeOrderZero(orderText) == IF orderText # <<>> THEN parseInt(orderText) ELSE 0

\* derivMatch[2] ? parseInt(derivMatch[2]) : 1   (line 878)
derivativeOrder(orderText) == IF orderText # <<>> THEN parseInt(orderText) ELSE 1

\* what a branch does not set
noParts ==
    [min |-> <<>>, max |-> <<>>, cleanMin |-> <<>>, cleanMax |-> <<>>,
     variable |-> <<>>, body |-> <<>>,
     plotBody |-> <<>>, bodyWithT |-> <<>>, order |-> 0,
     isEvaluation |-> FALSE, targetVal |-> <<>>, finalLatex |-> <<>>]

\* what every branch knows of a non-blank text (lines 1028-1036)
common(clean) ==
    [blank |-> FALSE, clean |-> clean,
     isDefinition |-> Includes(clean, <<"=">>),
     hasFreeVars |-> hasFreeVars(clean)]

\* BRANCH D (lines 975-1013)
branchD(clean) ==
    common(clean) @@ [branch |-> "plain", handled |-> FALSE,
                      finalLatex |-> autoGraph(plainLatex(clean))] @@ noParts

\* BRANCH C once derivRegex matched (lines 877-904)
derivativeParts(clean, orderText, variable, suffix) ==
    common(clean) @@ [branch |-> "derivative", handled |-> TRUE,
                      order |-> derivativeOrder(orderText),
                      variable |-> variable, body |-> suffix.body,
                      isEvaluation |-> suffix.isEvaluation,
                      targetVal |-> suffix.targetVal] @@ noParts

\* BRANCH C (lines 869-968): handled when derivRegex matches; the content is
\* derivMatch[6].replace(/\\placeholder\{[^}]*\}/g, '').trim()
branchC(clean, derivMatch) ==
    IF derivMatch.a = 0 THEN branchD(clean)
    ELSE derivativeParts(clean, Group(derivRegex[1], clean, derivMatch.pos, 2),
             Group(derivRegex[1], clean, derivMatch.pos, 3),
             evaluationSuffix(
                 Trim(ReplaceAll(rxPlaceholder, Group(derivRegex[1], clean, derivMatch.pos, 6))),
                 Group(derivRegex[1], clean, derivMatch.pos, 3)))

\* what follows BRANCH B when it did not handle the text
afterIntegral(clean) ==
    IF StartsWith(clean, tFrac) THEN branchC(clean, Search(derivRegex, clean))
    ELSE branchD(clean)

\* BRANCH B once the differential was found (lines 776-864)
integralParts(clean, bounds, rawVariable, intBody) ==
    IF bothBounds(bounds)
    THEN common(clean) @@ [branch |-> "definite", handled |-> TRUE,
                           min |-> bounds.min, max |-> bounds.max,
                           cleanMin |-> cleanBound(bounds.min),
                           cleanMax |-> cleanBound(bounds.max),
                           variable |-> rawVariable, body |-> intBody,
                           plotBody |-> definitePlotBody(intBody, rawVariable)] @@ noParts
    ELSE common(clean) @@ [branch |-> "indefinite", handled |-> TRUE,
                           min |-> bounds.min, max |-> bounds.max,
                           variable |-> rawVariable, body |-> intBody,
                           plotBody |-> indefinitePlotBody(intBody, rawVariable),
                           bodyWithT |-> SplitJoin(intBody, rawVariable, <<"t">>)] @@ noParts

\* if (varMatch) { rawVariable = varMatch[1]; body = rest.replace(dPattern, '').trim()
integralWith(clean, bounds, rest, varMatch) ==
    IF varMatch.a = 0 THEN afterIntegral(clean)
    ELSE integralParts(clean, bounds, Group(rxDifferential[1], rest, varMatch.pos, 1),
             Trim(ReplaceFirst(dPattern(Group(rxDifferential[1], rest, varMatch.pos, 1)), rest)))

\* BRANCH B (lines 755-866)
branchB(clean, bounds) ==
    integralWith(clean, bounds, integralRest(clean, bounds.end),
                 Search(rxDifferential, integralRest(clean, bounds.end)))

\* BRANCH A (lines 741-753)
branchA(clean, bounds) ==
    common(clean) @@ [branch |-> "sum", handled |-> TRUE,
                      min |-> bounds.min, max |-> bounds.max] @@ noParts

\* the branches in the order the code tries them (lines 739-1013)
branches(clean) ==
    IF sumMatches(clean) THEN branchA(clean, parseBounds(4, clean))
    ELSE IF StartsWith(clean, tInt) THEN branchB(clean, parseBounds(4, clean))
    ELSE afterIntegral(clean)

\* what processExpression derives from the text alone; a blank text returns
\* early (lines 565-569)
analyse(rawLatex) ==
    IF Trim(rawLatex) = <<>>
    THEN [blank |-> TRUE, clean |-> <<>>, isDefinition |-> FALSE, hasFreeVars |-> FALSE,
          branch |-> "blank", handled |-> FALSE] @@ noParts
    ELSE branches(cleanLatex(rawLatex))

(***************************************************************************)
(* The graphing engine as the hook uses it: setExpression merges the given  *)
(* properties into the directive of that id, removeExpression drops it      *)
(***************************************************************************)
newDirective ==
    [latex |-> <<>>, color |-> "", hidden |-> FALSE, secret |-> FALSE,
     lineStyle |-> "SOLID", label |-> <<>>]

setExpression(c, eid, props) ==
    [x \in DOMAIN c \cup {eid} |->
        IF x = eid THEN props @@ (IF eid \in DOMAIN c THEN c[eid] ELSE newDirective)
        ELSE c[x]]

removeExpression(c, eid) == [x \in DOMAIN c \ {eid} |-> c[x]]

\* const isParentVisible / isOperatedVisible (lines 520-522)
isParentVisible(mode) == mode = "all" \/ mode = "parent"
isOperatedVisible(mode) == mode = "all" \/ mode = "operated"

\* variant: every expression has the same safe id
safeIdShared(id) == <<"E">>

\* `E${id.replace(/-/g, "")}`
safeIdOf(id) == <<"E">> \o SplitJoin(id, <<"-">>, <<>>)

\* directive ids
curveId(safeId) == <<"c","u","r","v","e","-">> \o safeId
shadeId(safeId) == <<"s","h","a","d","e","-">> \o safeId
valId(safeId) == <<"v","a","l","-">> \o safeId
funcId(safeId) == <<"f","u","n","c","-">> \o safeId
labelId(safeId) == <<"l","a","b","e","l","-">> \o safeId
funcDId(safeId) == <<"f","u","n","c","D","-">> \o safeId
plotOrigId(safeId) == <<"p","l","o","t","-","o","r","i","g","-">> \o safeId
plotDerivId(safeId) == <<"p","l","o","t","-","d","e","r","i","v","-">> \o safeId

\* cleanupList (lines 550-555)
cleanupList(safeId) ==
    <<curveId(safeId), shadeId(safeId), valId(safeId), funcId(safeId), labelId(safeId),
      funcDId(safeId), plotOrigId(safeId), plotDerivId(safeId)>>

removeAll(c, eids) == [x \in DOMAIN c \ {eids[k] : k \in DOMAIN eids} |-> c[x]]

\* decimal text of a natural number
numberText(n) ==
    LET digitsOf[m \in 0..n] ==
            IF m < 10 THEN <<SubSeq(<<"0","1","2","3","4","5","6","7","8","9">>, m + 1, m + 1)[1]>>
            ELSE digitsOf[m \div 10] \o digitsOf[m % 10]
    IN digitsOf[n]

\* primes of a derivative of order <= 3
primes(order) == [k \in 1..order |-> "'"]

lblParent == <<"P","a","r","e","n","t"," ","F","u","n","c","t","i","o","n">>
lblIntegral == <<"I","n","t","e","g","r","a","l">>

\* `f_{${safeId}}`
fName(safeId) == <<"f","_","{">> \o safeId \o <<"}">>

\* derivNotation (lines 928-935)
derivNotation(safeId, order) ==
    IF order <= 3 THEN fName(safeId) \o primes(order) \o <<"(","x",")">>
    ELSE <<BS,"f","r","a","c","{","d","^">> \o numberText(order) \o <<"}","{","d","x","^">> \o numberText(order) \o <<"}"," ">>
         \o fName(safeId) \o <<"(","x",")">>

\* derivLabel (line 938)
derivLabel(order) ==
    <<"D","e","r","i","v","a","t","i","v","e",":"," ","f">> \o (IF order > 1 THEN <<"^","(">> \o numberText(order) \o <<")">> ELSE <<"'">>) \o <<"(","x",")">>

\* valLatex (lines 950-957)
valLatex(safeId, order, desmosVar, targetVal) ==
    IF order <= 3 THEN fName(safeId) \o primes(order) \o <<"(">> \o targetVal \o <<")">>
    ELSE <<BS,"f","r","a","c","{","d","^">> \o numberText(order) \o <<"}","{","d">> \o desmosVar \o <<"^">> \o numberText(order)
         \o <<"}"," ">> \o fName(safeId) \o <<"(">> \o targetVal \o <<")">>

\* variant: the interval is written upper bound first
shadeLatexUpperFirst(plotBody, cleanMin, cleanMax) ==
    <<BS,"m","i","n","(","0",","," ">> \o plotBody \o <<")"," ",BS,"l","e"," ","y"," ",BS,"l","e"," ",BS,"m","a","x","(","0",","," ">> \o plotBody \o <<")"," ",BS,"l","e","f","t",BS,"{"," ">>
    \o cleanMax \o <<" ",BS,"l","e"," ","x"," ",BS,"l","e"," ">> \o cleanMin \o <<" ",BS,"r","i","g","h","t",BS,"}">>

\* shadeLatex (line 818)
shadeLatex(plotBody, cleanMin, cleanMax) ==
    <<BS,"m","i","n","(","0",","," ">> \o plotBody \o <<")"," ",BS,"l","e"," ","y"," ",BS,"l","e"," ",BS,"m","a","x","(","0",","," ">> \o plotBody \o <<")"," ",BS,"l","e","f","t",BS,"{"," ">>
    \o cleanMin \o <<" ",BS,"l","e"," ","x"," ",BS,"l","e"," ">> \o cleanMax \o <<" ",BS,"r","i","g","h","t",BS,"}">>

(***************************************************************************)
(* processExpression (lines 537-1064) on the state st = the expression      *)
(* list, the engine's directives and the helper table                       *)
(***************************************************************************)
noLocals ==
    [id |-> <<>>, branch |-> "none", handled |-> FALSE, clean |-> <<>>,
     min |-> <<>>, max |-> <<>>, variable |-> <<>>, body |-> <<>>, order |-> 0,
     isEvaluation |-> FALSE, targetVal |-> <<>>, helperLatex |-> <<>>,
     shouldObserve |-> FALSE]

\* setExpressions(prev => prev.map(e => e.id === id ? { ...e, result: undefined } : e))
clearResult(exprs, id) ==
    [k \in DOMAIN exprs |->
        IF exprs[k].id = id THEN [exprs[k] EXCEPT !.result = "undefined"] ELSE exprs[k]]

\* the directives of the branch that handles the text (lines 739-1020)
emitDirectives(c, a, id, safeId, color, visible, visibilityMode) ==
    CASE a.branch = "sum" ->
           setExpression(c, valId(safeId),
               [latex |-> <<"S","_","{">> \o safeId \o <<"}"," ","="," ">> \o a.clean,
                secret |-> TRUE, hidden |-> TRUE])
      [] a.branch = "definite" ->
           LET c1 == setExpression(c, curveId(safeId),
                        [latex |-> <<"y"," ","="," ">> \o a.plotBody, color |-> color,
                         lineStyle |-> "DOTTED", label |-> lblParent,
                         hidden |-> ~isParentVisible(visibilityMode)])
               c2 == setExpression(c1, shadeId(safeId),
                        [latex |-> shadeLatex(a.plotBody, a.cleanMin, a.cleanMax),
                         color |-> color, hidden |-> ~isOperatedVisible(visibilityMode)])
           IN setExpression(IF a.plotBody # <<>> THEN c2 ELSE c, valId(safeId),
                  [latex |-> <<"I","_","{">> \o safeId \o <<"}"," ","="," ">> \o a.clean,
                   secret |-> TRUE, hidden |-> TRUE])
      [] a.branch = "indefinite" ->
           setExpression(
               setExpression(c, curveId(safeId),
                   [latex |-> <<"y"," ","="," ">> \o a.plotBody, lineStyle |-> "DOTTED", color |-> color,
                    label |-> lblParent, hidden |-> ~isParentVisible(visibilityMode)]),
               id,
               [latex |-> <<"y"," ","="," ",BS,"i","n","t","_","{","0","}","^","{","x","}"," ">> \o a.bodyWithT \o <<" ","d","t">>, color |-> color,
                lineStyle |-> "SOLID", label |-> lblIntegral,
                hidden |-> ~isOperatedVisible(visibilityMode)])
      [] a.branch = "derivative" ->
           LET desmosVar == stripBackslash(a.variable)
               c1 == setExpression(c, funcDId(safeId),
                        [latex |-> fName(safeId) \o <<"(">> \o desmosVar \o <<")"," ","="," ">> \o a.body,
                         secret |-> TRUE, hidden |-> TRUE])
               c2 == setExpression(c1, plotOrigId(safeId),
                        [latex |-> <<"y"," ","="," ">> \o fName(safeId) \o <<"(","x",")">>, lineStyle |-> "DOTTED",
                         color |-> color, label |-> lblParent,
                         hidden |-> ~isParentVisible(visibilityMode)])
               c3 == setExpression(c2, plotDerivId(safeId),
                        [latex |-> <<"y"," ","="," ">> \o derivNotation(safeId, a.order), color |-> color,
                         label |-> derivLabel(a.order), lineStyle |-> "SOLID",
                         hidden |-> ~isOperatedVisible(visibilityMode)])
           IN IF a.isEvaluation
              THEN setExpression(c3, valId(safeId),
                       [latex |-> <<"V","_","{">> \o safeId \o <<"}"," ","="," ">>
                                  \o valLatex(safeId, a.order, desmosVar, a.targetVal),
                        secret |-> TRUE, hidden |-> TRUE])
              ELSE c3
      [] OTHER ->
           setExpression(removeExpression(c, id), id,
               [latex |-> a.finalLatex, color |-> color,
                hidden |-> (visibilityMode = "none" \/ ~visible)])

\* helperLatex after the branches (lines 737, 750, 835, 964)
helperLatexOf(a, safeId) ==
    CASE a.branch = "sum" -> <<"S","_","{">> \o safeId \o <<"}">>
      [] a.branch = "definite" -> <<"I","_","{">> \o safeId \o <<"}">>
      [] a.branch = "derivative" /\ a.isEvaluation -> <<"V","_","{">> \o safeId \o <<"}">>
      [] OTHER -> a.clean

\* shouldObserve (line 1037)
shouldObserve(a, helperLatex) ==
    (a.handled /\ helperLatex # a.clean) \/ (~a.isDefinition /\ ~a.hasFreeVars)

\* the cleanup that precedes the branches (lines 547-563)
cleanedUp(st, safeId) ==
    [st EXCEPT !.calc = removeAll(st.calc, cleanupList(safeId)),
               !.helpers = [s \in DOMAIN st.helpers \ {safeId} |-> st.helpers[s]]]

\* the branches and the helper of a non-blank text (lines 573-1063)
processText(st, a, id, safeId, helperLatex, color, visible, visibilityMode) ==
    [st EXCEPT
       !.calc = emitDirectives(st.calc, a, id, safeId, color, visible, visibilityMode),
       !.helpers = IF shouldObserve(a, helperLatex)
                   THEN [s \in DOMAIN st.helpers \cup {safeId} |->
                            IF s = safeId THEN [latex |-> helperLatex, id |-> id]
                            ELSE st.helpers[s]]
                   ELSE st.helpers,
       \* helper.observe('numericValue', ...): nothing ever removes the callback
       !.observers = IF shouldObserve(a, helperLatex)
                     THEN st.observers \cup {[latex |-> helperLatex, id |-> id]}
                     ELSE st.observers,
       !.locals = [id |-> id, branch |-> a.branch, handled |-> a.handled,
                   clean |-> a.clean, min |-> a.min, max |-> a.max,
                   variable |-> a.variable, body |-> a.body, order |-> a.order,
                   isEvaluation |-> a.isEvaluation, targetVal |-> a.targetVal,
                   helperLatex |-> helperLatex,
                   shouldObserve |-> shouldObserve(a, helperLatex)]]

\* after the cleanup: the early return of a blank text, or the branches
processCleaned(st, a, id, safeId, color, visible, visibilityMode) ==
    IF a.blank
    THEN [st EXCEPT !.calc = removeExpression(st.calc, id),
                    !.expressions = clearResult(st.expressions, id),
                    !.locals = [noLocals EXCEPT !.id = id, !.branch = "blank"]]
    ELSE processText(st, a, id, safeId, helperLatexOf(a, safeId),
                     color, visible, visibilityMode)

processExpression(st, a, id, rawLatex, color, visible, visibilityMode) ==
    IF id \in st.visibilityUpdateInProgress THEN st
    ELSE processCleaned(cleanedUp(st, safeIdOf(id)), a, id, safeIdOf(id),
                        color, visible, visibilityMode)

(***************************************************************************)
(* The texts a user can enter, built from parts                             *)
(***************************************************************************)
\* number of bodies drawn from AllBodies
NBodies == 5

\* highest derivative order written in a text
MaxOrder == 2

\* longest concatenation of scraps
MaxScraps == 2

Concat(A, B) == {a \o b : a \in A, b \in B}

AllBodies == <<<<"x","^","{","2","}">>, <<"x"," "," ","t">>, <<BS,"p","l","a","c","e","h","o","l","d","e","r","{","}","x">>, <<"(","x","+","1",")">>, <<BS,"t","a","n"," ","t">>>>

Bodies == {AllBodies[k] : k \in 1..(IF NBodies < Len(AllBodies) THEN NBodies ELSE Len(AllBodies))}

\* bodies as they follow a head: directly, after a blank, or none at all
SpacedBodies == Bodies \cup Concat({<<" ">>}, Bodies) \cup {<<>>}

LowerValues == {<<"0">>, <<"a","+","1">>}
UpperValues == {<<"1">>, <<BS,"p","i">>}

\* _{l}^{u}
subSup(l, u) == <<"_","{">> \o l \o <<"}","^","{">> \o u \o <<"}">>

\* the subscript/superscript forms that follow a \sum or an \int
BoundForms ==
    {<<>>, <<"_","{","0","}">>, <<"^","{","1","}">>, <<"_","{","}","^","{","1","}">>, <<"_","{","0","}","^","{","}">>, <<"_","0","^","1">>, <<"_","{","0","}","^","{","1">>, <<"_","{","i","=","1","}","^","{","n","}">>}
    \cup {subSup(l, u) : l \in LowerValues, u \in UpperValues}
    \cup {<<"^","{">> \o u \o <<"}","_","{">> \o l \o <<"}">> : l \in LowerValues, u \in UpperValues}

DifferentialVariables == {<<"x">>, <<"t">>}

\* " dV"
differential(V) == <<" ","d">> \o V

Differentials == {<<>>, <<"d","x">>} \cup {differential(V) : V \in DifferentialVariables}

IntegralTexts == Concat(Concat(Concat({tInt}, BoundForms), SpacedBodies), Differentials)

SumTexts == Concat(Concat({tSum}, BoundForms), {<<" ","i">>, <<>>})

\* the order marks ^n and ^{n} of the top and the bottom group of \frac{d..}{d..}
OrderMarks ==
    {<< <<>>, <<>> >>}
    \cup {<< <<"^">> \o numberText(n), <<"^">> \o numberText(n) >> : n \in 2..MaxOrder}
    \cup {<< <<"^","{">> \o numberText(n) \o <<"}">>, <<"^","{">> \o numberText(n) \o <<"}">> >> : n \in 2..MaxOrder}
    \cup {<< <<"^","{">> \o numberText(n) \o <<"}">>, <<>> >> : n \in 2..MaxOrder}
    \cup {<< <<>>, <<"^","{">> \o numberText(n) \o <<"}">> >> : n \in 2..MaxOrder}

Variables == {<<"x">>, <<BS,"t","h","e","t","a">>}

\* \frac{d m1}{dV m2}
derivativeHead(m, V) == tFrac \o <<"{","d">> \o m[1] \o <<"}","{","d">> \o V \o m[2] \o <<"}">>

\* order marks that are no order of a derivative: zero, and two that differ
OddMarks == {<< <<"^","0">>, <<"^","0">> >>, << <<"^","2">>, <<"^","3">> >>}

DerivativeHeads ==
    {derivativeHead(m, V) : m \in OrderMarks, V \in Variables}
    \cup {derivativeHead(m, <<"x">>) : m \in OddMarks}
    \cup {<<BS,"f","r","a","c","{","x","}","{","2","}">>, <<BS,"f","r","a","c","{","d","}","{","d","x">>, <<BS,"f","r","a","c","{","d","}","{","x","}">>}

EvaluationVariables == {<<"x">>, <<"t">>, <<BS,"t","h","e","t","a">>, <<"t","h","e","t","a">>}
EvaluationValues == {<<"3">>, <<" ","0"," ">>}

\* |_{W=c}
evaluationAt(W, c) == <<"|","_","{">> \o W \o <<"=">> \o c \o <<"}">>

\* a group |_{x=3} that is followed by more text, or by a brace it does not open
FollowedSuffixes ==
    {<<"|","_","{","x","=","3","}","+","y","^","{","2","}">>, <<"|","_","{","x","=","3","}","}">>}

EvaluationSuffixes ==
    {<<>>, <<"|","_","{","x","=","3">>, <<"|","_","{","x","=","1","=","2","}">>}
    \cup {evaluationAt(W, c) : W \in EvaluationVariables, c \in EvaluationValues}
    \cup FollowedSuffixes

DerivativeTexts == Concat(Concat(DerivativeHeads, SpacedBodies), EvaluationSuffixes)

Scraps == {tSum, tInt, tFrac, <<"_">>, <<"^">>, <<"{">>, <<"}">>, <<"d">>, <<"x">>, <<" ">>}

ScrapTexts ==
    LET upTo[n \in 0..MaxScraps] ==
            IF n = 0 THEN {<<>>} ELSE upTo[n - 1] \cup Concat(upTo[n - 1], Scraps)
    IN upTo[MaxScraps]

PlainTexts == {<<"x","^","{","2","}","+","1">>, <<"a","=","5">>, <<"f","(","x",")","=","x","^","{","2","}">>, <<"2","+","3">>, <<"|","x","-","1","|">>, <<"x"," ","d","x">>, <<"s","i","n","(","x",")">>, <<"|">>, <<"=">>, <<BS>>}

\* the spellings of the absolute value of one argument
AbsArguments == {<<"x","-","1">>, <<"x">>}

absSpellings(A) ==
    {<<BS,"o","p","e","r","a","t","o","r","n","a","m","e","{","a","b","s","}","(">> \o A \o <<")">>, <<BS,"m","a","t","h","r","m","{","a","b","s","}","(">> \o A \o <<")">>, <<BS,"a","b","s","{">> \o A \o <<"}">>,
     <<BS,"l","v","e","r","t"," ">> \o A \o <<BS,"r","v","e","r","t">>, <<BS,"l","e","f","t",BS,"v","e","r","t"," ">> \o A \o <<BS,"r","i","g","h","t",BS,"v","e","r","t">>, <<"|">> \o A \o <<"|">>}

AbsTexts == UNION {absSpellings(A) : A \in AbsArguments}

Inputs ==
    IntegralTexts \cup SumTexts \cup DerivativeTexts \cup ScrapTexts \cup PlainTexts \cup AbsTexts

(***************************************************************************)
(* The hook as a state machine                                              *)
(***************************************************************************)
\* most setTimeout callbacks of one expression that are pending at a time
MaxTimers == 2

VisibilityModes == {"all", "parent", "operated", "none"}

emptyMap == [x \in {} |-> 0]

\* what processExpression derives from each text, computed once
analysisTable == [v \in Inputs |-> analyse(v)]

analysisOf(v) == IF v \in Inputs THEN analysisTable[v] ELSE analyse(v)

\* useState initial value (lines 528-530)
initialExpressions ==
    << [id |-> <<"1">>, latex |-> <<>>, color |-> "#2d70b3", visible |-> TRUE,
        visibilityMode |-> "all", result |-> "undefined"] >>

ids(exprs) == {exprs[k].id : k \in DOMAIN exprs}

\* expressions.find(e => e.id === id): its position, 0 when there is none
find(exprs, id) ==
    LET at == {k \in DOMAIN exprs : exprs[k].id = id}
    IN IF at = {} THEN 0 ELSE Min(at)

Init ==
    /\ arg \in Inputs
    /\ expressions = initialExpressions
    /\ calc = emptyMap
    /\ helpers = emptyMap
    /\ observers = {}
    /\ visibilityUpdateInProgress = {}
    /\ timers = [i \in ids(initialExpressions) |-> 0]
    /\ locals = noLocals
    /\ res = <<>>
    /\ res2 = <<>>
    /\ pc = "hook"

\* the hook's state after handleInput (lines 1066-1084), k being the position
\* of the expression: setExpressions(prev => prev.map(...)), then processExpression
afterInput(id, value, k) ==
    processExpression([expressions |-> [j \in DOMAIN expressions |->
                                          IF expressions[j].id = id
                                          THEN [expressions[j] EXCEPT !.latex = value]
                                          ELSE expressions[j]],
                       calc |-> calc, helpers |-> helpers, observers |-> observers,
                       visibilityUpdateInProgress |-> visibilityUpdateInProgress,
                       locals |-> locals],
                      analysisOf(value), id, value,
                      IF k # 0 THEN expressions[k].color ELSE "#2d70b3",
                      IF k # 0 THEN expressions[k].visible ELSE TRUE,
                      IF k # 0 THEN expressions[k].visibilityMode ELSE "all")

\* the state `out` becomes the hook's state
becomes(out) ==
    /\ expressions' = out.expressions
    /\ calc' = out.calc
    /\ helpers' = out.helpers
    /\ observers' = out.observers
    /\ locals' = out.locals

\* handleInput (lines 1066-1084), processExpression included
HandleInput(id, value) ==
    /\ pc = "hook"
    /\ ~(find(expressions, id) # 0 /\ expressions[find(expressions, id)].latex = value)
    /\ id \notin visibilityUpdateInProgress
    /\ becomes(afterInput(id, value, find(expressions, id)))
    /\ UNCHANGED <<visibilityUpdateInProgress, timers, arg, res, res2, pc>>

\* the graphical directives of an expression and their new `hidden` (lines 1110-1144)
updateVisibility(c, id, mode) ==
    LET safeId == safeIdOf(id)
        parentIds == {curveId(safeId), plotOrigId(safeId)}
        operatedIds == {id, shadeId(safeId), plotDerivId(safeId)}
    IN [eid \in DOMAIN c |->
          IF eid \in parentIds
          THEN [c[eid] EXCEPT !.hidden = ~isParentVisible(mode), !.lineStyle = "DOTTED"]
          ELSE IF eid \in operatedIds
          THEN [c[eid] EXCEPT !.hidden = ~isOperatedVisible(mode)]
          ELSE c[eid]]

\* variant: every mode leaves the expression marked visible
newVisibleAlways(mode) == TRUE

\* const newVisible = mode !== 'none' (line 1164)
newVisibleFor(mode) == mode # "none"

\* setVisibilityMode (lines 1158-1215)
SetVisibilityMode(id, mode) ==
    LET k == find(expressions, id)
    IN /\ pc = "hook"
       /\ timers[id] < MaxTimers
       /\ visibilityUpdateInProgress' = visibilityUpdateInProgress \cup {id}
       /\ timers' = [timers EXCEPT ![id] = @ + 1]
       /\ IF k # 0
          THEN /\ calc' = updateVisibility(calc, id, mode)
               /\ expressions' = [expressions EXCEPT ![k].visible = newVisibleFor(mode),
                                                     ![k].visibilityMode = mode]
          ELSE UNCHANGED <<calc, expressions>>
       /\ UNCHANGED <<helpers, observers, locals, arg, res, res2, pc>>

\* toggleVisibility (lines 1097-1155)
ToggleVisibility(id) ==
    LET k == find(expressions, id)
        newVisible == ~expressions[k].visible
        newMode == IF newVisible THEN "all" ELSE "none"
    IN /\ pc = "hook"
       /\ timers[id] < MaxTimers
       /\ visibilityUpdateInProgress' = visibilityUpdateInProgress \cup {id}
       /\ timers' = [timers EXCEPT ![id] = @ + 1]
       /\ IF k # 0
          THEN /\ calc' = updateVisibility(calc, id, newMode)
               /\ expressions' = [expressions EXCEPT ![k].visible = newVisible,
                                                     ![k].visibilityMode = newMode]
          ELSE UNCHANGED <<calc, expressions>>
       /\ UNCHANGED <<helpers, observers, locals, arg, res, res2, pc>>

\* the setTimeout callback of a visibility update (lines 1152-1154, 1212-1214)
ClearVisibilityFlag(id) ==
    /\ pc = "hook"
    /\ timers[id] > 0
    /\ timers' = [timers EXCEPT ![id] = @ - 1]
    /\ visibilityUpdateInProgress' = visibilityUpdateInProgress \ {id}
    /\ UNCHANGED <<expressions, calc, helpers, observers, locals, arg, res, res2, pc>>

\* one text: the user types it into an expression, or clears the field
Next ==
    \E id \in ids(expressions) :
        \/ HandleInput(id, arg)
        \/ HandleInput(id, <<>>)

Spec == Init /\ [][Next]_vars

\* the texts of the behaviours in which what is shown changes as well
VisibilityTexts ==
    {<<>>, <<"x","^","{","2","}","+","1">>, <<BS,"i","n","t","_","{","0","}","^","{","1","}"," ","x","^","{","2","}"," ","d","x">>, <<BS,"i","n","t"," ","x","^","{","2","}"," ","d","x">>,
     <<BS,"f","r","a","c","{","d","}","{","d","x","}","x","^","{","2","}","|","_","{","x","=","3","}">>, <<BS,"s","u","m","_","{","i","=","1","}","^","{","n","}"," ","i">>}

InitVisibility == Init /\ arg \in VisibilityTexts

NextVisibility ==
    \E id \in ids(expressions) :
        \/ HandleInput(id, arg)
        \/ HandleInput(id, <<>>)
        \/ \E mode \in VisibilityModes : SetVisibilityMode(id, mode)
        \/ ToggleVisibility(id)
        \/ ClearVisibilityFlag(id)

SpecVisibility == InitVisibility /\ [][NextVisibility]_vars

(***************************************************************************)
(* Properties of the classification                                         *)
(***************************************************************************)
Constructs == {"sum", "definite", "indefinite", "derivative", "plain"}

\* the text of the expression the last processExpression call was for
enteredText ==
    LET k == find(expressions, locals.id)
    IN IF k = 0 THEN <<>> ELSE expressions[k].latex

\* the engine holds a directive of that id
holds(eid) == eid \in DOMAIN calc

\* a text with every run of white space replaced by one blank
singleSpaced(s) ==
    LET keep == {i \in 1..Len(s) : ~(s[i] \in Space /\ i > 1 /\ s[i - 1] \in Space)}
        nth(k) == CHOOSE i \in keep : Cardinality({j \in keep : j <= i}) = k
    IN [k \in 1..Cardinality(keep) |-> IF s[nth(k)] \in Space THEN " " ELSE s[nth(k)]]

\* a body as processExpression keeps it: placeholders removed, trimmed
withoutPlaceholders(B) == Trim(ReplaceAll(rxPlaceholder, B))

enteredIntegral(L, U, B, V) ==
    /\ enteredText = tInt \o subSup(L, U) \o <<" ">> \o B \o differential(V)
    /\ locals.clean = enteredText

\* C2 as stated: the canonical text \int_{L}^{U} B dV is a definite integral
\* with lower bound L, upper bound U, variable V and body B (trimmed).
C2_BodyAsWritten ==
    \A L \in LowerValues, U \in UpperValues, B \in Bodies, V \in DifferentialVariables :
        enteredIntegral(L, U, B, V) =>
            /\ locals.branch = "definite"
            /\ locals.min = L
            /\ locals.max = U
            /\ locals.variable = V
            /\ locals.body = Trim(B)

\* C2, amended: the canonical text \int_{L}^{U} B dV is a definite integral with
\* lower bound L, upper bound U, variable V, and its body is B trimmed with
\* every run of white space collapsed to one blank.
C2_DefiniteIntegralParts ==
    \A L \in LowerValues, U \in UpperValues, B \in Bodies, V \in DifferentialVariables :
        enteredIntegral(L, U, B, V) =>
            /\ locals.branch = "definite"
            /\ locals.min = L
            /\ locals.max = U
            /\ locals.variable = V
            /\ locals.body = singleSpaced(Trim(B))

\* \int_{0}^{1} x^{2} dx has been entered and taken apart
C2_Witness ==
    /\ enteredIntegral(<<"0">>, <<"1">>, <<"x","^","{","2","}">>, <<"x">>)
    /\ locals.branch = "definite"
    /\ locals.body = <<"x","^","{","2","}">>
    /\ locals.min = <<"0">>
    /\ locals.max = <<"1">>

\* the canonical text \frac{d}{dV} B, with or without a blank before B
enteredDerivative(V, B) ==
    /\ enteredText \in {derivativeHead(<< <<>>, <<>> >>, V) \o B,
                        derivativeHead(<< <<>>, <<>> >>, V) \o <<" ">> \o B}
    /\ locals.clean = enteredText

\* C3 as stated: \frac{d}{dV} B without order marks is a derivative of order 1
\* in V with body B and no evaluation point.
C3_BodyAsWritten ==
    \A V \in Variables, B \in Bodies :
        enteredDerivative(V, B) =>
            /\ locals.branch = "derivative"
            /\ locals.order = 1
            /\ locals.variable = V
            /\ locals.body = B
            /\ ~locals.isEvaluation

\* C3, amended: \frac{d}{dV} B without order marks and without an evaluation
\* suffix is a derivative of order 1 in V without evaluation point, and its
\* body is B with the \placeholder{..} tokens removed and then trimmed.
C3_OrderDefaultsToOne ==
    \A V \in Variables, B \in Bodies :
        enteredDerivative(V, B) =>
            /\ locals.branch = "derivative"
            /\ locals.order = 1
            /\ locals.variable = V
            /\ locals.body = withoutPlaceholders(B)
            /\ ~locals.isEvaluation
            /\ ~holds(valId(safeIdOf(locals.id)))

\* \frac{d}{dx}x^{2} has been entered: order 1, variable x, body x^{2}
C3_Witness ==
    /\ enteredText = <<BS,"f","r","a","c","{","d","}","{","d","x","}","x","^","{","2","}">>
    /\ locals.branch = "derivative"
    /\ locals.order = 1
    /\ locals.variable = <<"x">>
    /\ locals.body = <<"x","^","{","2","}">>
    /\ ~locals.isEvaluation

\* C4: a derivative text that ends in |_{W=c}: when W is the variable of the
\* derivative (a leading backslash stripped from both) the evaluation point c
\* is extracted, the value directive is emitted and the body excludes the
\* suffix; when W is another variable there is no evaluation point, no value
\* directive, and the suffix stays in the body.
C4_EvaluationSuffix ==
    \A m \in OrderMarks, V \in Variables, B \in SpacedBodies,
       W \in EvaluationVariables, c \in EvaluationValues :
        (/\ enteredText = derivativeHead(m, V) \o B \o evaluationAt(W, c)
         /\ locals.branch = "derivative")
        => IF stripBackslash(W) = stripBackslash(V)
           THEN /\ locals.isEvaluation
                /\ locals.targetVal = Trim(c)
                /\ locals.body = withoutPlaceholders(B)
                /\ holds(valId(safeIdOf(locals.id)))
           ELSE /\ ~locals.isEvaluation
                /\ locals.targetVal = <<>>
                /\ locals.body = withoutPlaceholders(B \o evaluationAt(W, c))
                /\ ~holds(valId(safeIdOf(locals.id)))

\* \frac{d}{dx}x^{2}|_{x=3} has been entered: evaluated at 3, body x^{2}
C4_Witness ==
    /\ enteredText = <<BS,"f","r","a","c","{","d","}","{","d","x","}","x","^","{","2","}","|","_","{","x","=","3","}">>
    /\ locals.isEvaluation
    /\ locals.targetVal = <<"3">>
    /\ locals.body = <<"x","^","{","2","}">>
    /\ holds(valId(safeIdOf(locals.id)))

\* C5: an integral is definite, with its shade and value directives, only if
\* both bounds were found and are non-empty; with one side only, or an empty
\* bound group, it is indefinite: parent curve and accumulator curve, and no
\* shade or value directive.
C5_DefiniteOnlyWithBothBounds ==
    LET b == parseBounds(4, locals.clean)
        both == b.min # <<>> /\ b.max # <<>>
        safeId == safeIdOf(locals.id)
    IN locals.branch \in {"definite", "indefinite"} =>
        /\ locals.branch = "definite" => both
        /\ (holds(shadeId(safeId)) \/ holds(valId(safeId))) => both
        /\ ~both =>
            /\ locals.branch = "indefinite"
            /\ holds(curveId(safeId))
            /\ holds(locals.id)
            /\ calc[locals.id].latex = <<"y"," ","="," ",BS,"i","n","t","_","{","0","}","^","{","x","}"," ">> \o SplitJoin(locals.body, locals.variable, <<"t">>) \o <<" ","d","t">>
            /\ ~holds(shadeId(safeId))
            /\ ~holds(valId(safeId))

\* an integral with a lower bound only has been entered and is indefinite
C5_Witness ==
    /\ locals.branch = "indefinite"
    /\ locals.min # <<>>
    /\ locals.max = <<>>
    /\ holds(curveId(safeIdOf(locals.id)))
    /\ ~holds(shadeId(safeIdOf(locals.id)))

\* C6: every supported spelling of the absolute value of one argument, the
\* operator-name forms \operatorname{abs}(ARG), \mathrm{abs}(ARG), \abs{ARG},
\* the bar pairs \lvert ARG\rvert, \left\vert ARG\right\vert and the bare pipes
\* |ARG|, is normalised by processExpression to the one text \left|ARG\right|.
C6_AllSpellingsAgree ==
    \A A \in AbsArguments :
        (enteredText \in absSpellings(A) /\ locals.branch \in Constructs)
            => locals.clean = <<BS,"l","e","f","t","|">> \o A \o <<BS,"r","i","g","h","t","|">>

(***************************************************************************)
(* The rewriting passes on their own: a text is drawn, a pass is applied,  *)
(* and then applied to its own output                                      *)
(***************************************************************************)
\* most fragments a text is made of
MaxFragments == 3

\* most fragments a text for the absolute-value rewriter is made of
MaxAbsFragments == 4

\* the texts made of at most most of the fragments F
fragmentTexts(F, most) ==
    LET upTo[n \in 0..most] ==
            IF n = 0 THEN {<<>>} ELSE upTo[n - 1] \cup Concat(upTo[n - 1], F)
    IN upTo[most]

AbsFragments == {<<"|">>, <<"x">>, <<BS,"l","e","f","t","|">>, <<BS,"r","i","g","h","t","|">>, <<BS,"a","b","s","{">>, <<"}">>}

LexicalFragments == {<<BS,"m","a","t","h","r","m","{">>, <<" ">>, <<"x","}">>, <<BS>>, <<BS,"l","i","m","i","t","s">>, <<"!">>}

EscapeFragments == {<<"s","i","n">>, <<"l","n">>, <<BS>>, <<"h">>, <<"(">>, <<" ">>}

hookAtRest ==
    /\ expressions = initialExpressions
    /\ calc = emptyMap
    /\ helpers = emptyMap
    /\ observers = {}
    /\ visibilityUpdateInProgress = {}
    /\ timers = [i \in ids(initialExpressions) |-> 0]
    /\ locals = noLocals

hookVars == <<expressions, calc, helpers, observers, visibilityUpdateInProgress, timers, locals>>

InitRewrite ==
    /\ hookAtRest
    /\ \/ pc = "abs" /\ arg \in fragmentTexts(AbsFragments, MaxAbsFragments)
       \/ pc = "lexical" /\ arg \in fragmentTexts(LexicalFragments, MaxFragments)
    /\ res = <<>>
    /\ res2 = <<>>

InitEscape ==
    /\ hookAtRest
    /\ arg \in fragmentTexts(EscapeFragments, MaxFragments)
    /\ res = <<>>
    /\ res2 = <<>>
    /\ pc = "clean"

\* the absolute-value rewriter (lines 624-673)
RewriteAbs ==
    /\ pc = "abs"
    /\ res' = rewriteAbs(arg)
    /\ pc' = "abs once"
    /\ UNCHANGED <<hookVars, arg, res2>>

RewriteAbsAgain ==
    /\ pc = "abs once"
    /\ res2' = rewriteAbs(res)
    /\ pc' = "abs twice"
    /\ UNCHANGED <<hookVars, arg, res>>

\* the lexical normaliser (lines 573-619 and 675-679)
NormalizeLexical ==
    /\ pc = "lexical"
    /\ res' = normalizeLexical(arg)
    /\ pc' = "lexical once"
    /\ UNCHANGED <<hookVars, arg, res2>>

NormalizeLexicalAgain ==
    /\ pc = "lexical once"
    /\ res2' = normalizeLexical(res)
    /\ pc' = "lexical twice"
    /\ UNCHANGED <<hookVars, arg, res>>

\* the whole normalisation (lines 573-679), ending in the function escaping
CleanLatex ==
    /\ pc = "clean"
    /\ res' = cleanLatex(arg)
    /\ pc' = "clean once"
    /\ UNCHANGED <<hookVars, arg, res2>>

\* the function escaping (lines 675-679) applied to the normalised text
EscapeAgain ==
    /\ pc = "clean once"
    /\ res2' = escapeFunctions(res)
    /\ pc' = "escaped twice"
    /\ UNCHANGED <<hookVars, arg, res>>

NextRewrite ==
    \/ RewriteAbs
    \/ RewriteAbsAgain
    \/ NormalizeLexical
    \/ NormalizeLexicalAgain

SpecRewrite == InitRewrite /\ [][NextRewrite]_vars

NextEscape == CleanLatex \/ EscapeAgain

SpecEscape == InitEscape /\ [][NextEscape]_vars

\* C7: the absolute-value rewriter is idempotent: applied to its own output it
\* returns that output unchanged, for every text, unmatched and adjacent bars
\* and bars after \left or \right included.
C7_RewriteAbsIdempotent == pc = "abs twice" => res2 = res

\* C8: the lexical normaliser is idempotent: normalising the normalised text
\* again yields the same text.
C8_NormalizeLexicalIdempotent == pc = "lexical twice" => res2 = res

\* the offsets of a text at which a function name stands that is neither
\* preceded by a backslash or a letter nor followed by a letter
bareNames(t) ==
    {i \in 1..Len(t) :
        \E k \in DOMAIN funcs :
            LET n == Len(funcs[k])
            IN /\ i + n - 1 <= Len(t)
               /\ SubSeq(t, i, i + n - 1) = funcs[k]
               /\ (i = 1 \/ t[i - 1] \notin ({BS} \cup Letter))
               /\ (i + n > Len(t) \/ t[i + n] \notin Letter)}

\* a text with one backslash put before each of the offsets at
withBackslashes(t, at) ==
    LET place(i) == i + Cardinality({j \in at : j <= i})
    IN [k \in 1..(Len(t) + Cardinality(at)) |->
            IF \E i \in 1..Len(t) : place(i) = k
            THEN t[CHOOSE i \in 1..Len(t) : place(i) = k]
            ELSE BS]

\* C10: the normalised text is the text before the escaping with exactly one
\* backslash put before every function name that is neither preceded by a
\* backslash or a letter nor followed by a letter, so every such name carries
\* one backslash; an escaped name gets no second backslash, and a name inside
\* a longer identifier (arcsin, sinh) is left unchanged.
C10_FunctionNamesEscapedOnce ==
    /\ pc \in {"clean once", "escaped twice"} =>
          /\ res = withBackslashes(beforeEscaping(arg), bareNames(beforeEscaping(arg)))
          /\ bareNames(res) = {}
    /\ pc = "escaped twice" => res2 = res

\* sin(ln has been normalised: both names carry one backslash
C10_Witness ==
    /\ pc = "escaped twice"
    /\ arg = <<"s","i","n","(","l","n">>
    /\ res = <<BS,"s","i","n","(",BS,"l","n">>
    /\ res2 = res

(***************************************************************************)
(* parseBounds on its own: the same two bounds in either order             *)
(***************************************************************************)
\* number of bound tokens tried
NBoundTokens == 4

AllBoundTokens == <<<<"0">>, <<"{","i","=","1","}">>, <<BS,"p","i">>, <<"{","a","{","b","}","}">>, <<"n">>, <<"{","}">>, <<BS,"a">>>>

BoundTokens == {AllBoundTokens[k] : k \in 1..Min({NBoundTokens, Len(AllBoundTokens)})}

\* what precedes the bounds and what follows them
Leads == {<<>>, <<BS,"s","u","m">>, <<BS,"i","n","t"," ">>}

Continuations == {<<>>, <<"x">>, <<" ","x">>, <<"+","1">>, <<"_","2">>, <<"{","x","}">>}

subscriptFirst(t) == t.lead \o <<"_">> \o t.a \o <<"^">> \o t.b \o t.rest

superscriptFirst(t) == t.lead \o <<"^">> \o t.b \o <<"_">> \o t.a \o t.rest

InitBounds ==
    /\ hookAtRest
    /\ arg \in [lead : Leads, a : BoundTokens, b : BoundTokens, rest : Continuations]
    /\ res = <<>>
    /\ res2 = <<>>
    /\ pc = "bounds"

\* parseBounds (lines 684-733) on _a^b...
ParseBoundsSubscriptFirst ==
    /\ pc = "bounds"
    /\ res' = parseBounds(Len(arg.lead), subscriptFirst(arg))
    /\ pc' = "subscript first"
    /\ UNCHANGED <<hookVars, arg, res2>>

\* parseBounds (lines 684-733) on ^b_a...
ParseBoundsSuperscriptFirst ==
    /\ pc = "subscript first"
    /\ res2' = parseBounds(Len(arg.lead), superscriptFirst(arg))
    /\ pc' = "both orders"
    /\ UNCHANGED <<hookVars, arg, res>>

NextBounds == ParseBoundsSubscriptFirst \/ ParseBoundsSuperscriptFirst

SpecBounds == InitBounds /\ [][NextBounds]_vars

\* the bound a token stands for: the inside of a brace group, else the token
boundOf(token) ==
    IF token[1] = "{" THEN SubSeq(token, 2, Len(token) - 1) ELSE token

\* C9 as stated: for all single-token or brace-group bounds a and b, _a^b... and
\* ^b_a... scanned from the same offset give the same lower bound a, the same
\* upper bound b and the same end offset.
C9_EitherOrderAlways ==
    pc = "both orders" =>
        /\ res = res2
        /\ res.min = boundOf(arg.a)
        /\ res.max = boundOf(arg.b)

\* C9, amended: for all single-token or brace-group bounds a and b, _a^b... and
\* ^b_a... scanned from the same offset give the same lower bound a, the same
\* upper bound b and the same end offset, provided no bound that is a command
\* is directly followed by a letter: a command bound written last takes the
\* letters that follow it into the bound.
C9_EitherOrder ==
    LET command == arg.a[1] = BS \/ arg.b[1] = BS
        letterNext == arg.rest # <<>> /\ arg.rest[1] \in Letter
    IN (pc = "both orders" /\ ~(command /\ letterNext)) =>
        /\ res = res2
        /\ res.min = boundOf(arg.a)
        /\ res.max = boundOf(arg.b)
        /\ res.end = Len(arg.lead) + Len(arg.a) + Len(arg.b) + 2

\* \sum_{i=1}^\pi+1 and \sum^\pi_{i=1}+1 have both been scanned
C9_Witness ==
    /\ pc = "both orders"
    /\ arg = [lead |-> <<BS,"s","u","m">>, a |-> <<"{","i","=","1","}">>, b |-> <<BS,"p","i">>, rest |-> <<"+","1">>]
    /\ res = [min |-> <<"i","=","1">>, max |-> <<BS,"p","i">>, end |-> 14]
    /\ res2 = res

(***************************************************************************)
(* utils/latex-parser.ts: latexToNerdamer (lines 5-175)                    *)
(***************************************************************************)
AlphaNum == Letter \cup Digit

\* \w, the characters between which \b finds no boundary
WordChar == AlphaNum \cup {"_"}

Braces == {"{", "}"}

\* the replacement `name($1)`
call(name) == <<T(name \o <<"(">>), G(1), T(<<")">>)>>

\* /head\s*\(([^)]+)\)/g  ->  name($1)
rxCallOf(head, name) ==
    <<Alt(<<Lit(head), Star(Space), Lit(<<"(">>), NotPlus({")"}), Lit(<<")">>)>>,
          << <<4, 4>> >>, call(name))>>

\* /head\s+([a-zA-Z])/g  ->  name($1)
rxSpacedLetter(head, name) ==
    <<Alt(<<Lit(head), Plus(Space), One(Letter)>>, << <<3, 3>> >>, call(name))>>

\* /head([a-zA-Z])/g  ->  name($1)
rxAdjacentLetter(head, name) ==
    <<Alt(<<Lit(head), One(Letter)>>, << <<2, 2>> >>, call(name))>>

\* the first chain of replacements (lines 8-27)
formattingRules ==
    <<rxLeftSp, rxRightSp,
      Literal(<<BS,"c","d","o","t">>, <<"*">>), Literal(<<BS,"t","i","m","e","s">>, <<"*">>),
      \* /\\frac\s*\{([^{}]*)\}\s*\{([^{}]*)\}/g  ->  ($1)/($2)
      <<Alt(<<Lit(tFrac), Star(Space), Lit(<<"{">>), NotStar(Braces), Lit(<<"}">>),
              Star(Space), Lit(<<"{">>), NotStar(Braces), Lit(<<"}">>)>>,
            << <<4, 4>>, <<8, 8>> >>,
            <<T(<<"(">>), G(1), T(<<")","/","(">>), G(2), T(<<")">>)>>)>>,
      \* /\\sqrt\s*\{([^{}]*)\}/g  ->  sqrt($1)
      <<Alt(<<Lit(<<BS,"s","q","r","t">>), Star(Space), Lit(<<"{">>), NotStar(Braces), Lit(<<"}">>)>>,
            << <<4, 4>> >>, call(<<"s","q","r","t">>))>>,
      \* /\\sqrt\s*\[([^\]]*)\]\s*\{([^{}]*)\}/g  ->  ($2)^(1/($1))
      <<Alt(<<Lit(<<BS,"s","q","r","t">>), Star(Space), Lit(<<"[">>), NotStar({"]"}), Lit(<<"]">>),
              Star(Space), Lit(<<"{">>), NotStar(Braces), Lit(<<"}">>)>>,
            << <<4, 4>>, <<8, 8>> >>,
            <<T(<<"(">>), G(2), T(<<")","^","(","1","/","(">>), G(1), T(<<")",")">>)>>)>>,
      \* /\^\{([^{}]*)\}/g  ->  ^($1)
      <<Alt(<<Lit(<<"^","{">>), NotStar(Braces), Lit(<<"}">>)>>, << <<2, 2>> >>,
            <<T(<<"^","(">>), G(1), T(<<")">>)>>)>>,
      \* /_\{[^{}]*\}/g and /_[a-zA-Z0-9]/g  ->  ''
      <<Alt(<<Lit(<<"_","{">>), NotStar(Braces), Lit(<<"}">>)>>, <<>>, <<>>)>>,
      <<Alt(<<Lit(<<"_">>), One(AlphaNum)>>, <<>>, <<>>)>>,
      \* /\|([^|]+)\|/g  ->  abs($1)
      <<Alt(<<Lit(<<"|">>), NotPlus({"|"}), Lit(<<"|">>)>>, << <<2, 2>> >>, call(tAbs))>>,
      Literal(<<BS,"p","i">>, <<"p","i">>)>>

\* implicit multiplication, part 1 (lines 34-37)
implicitProductRules ==
    <<\* /([a-zA-Z0-9])e\^/g  ->  $1*e^
      <<Alt(<<One(AlphaNum), Lit(<<"e","^">>)>>, << <<1, 1>> >>, <<G(1), T(<<"*","e","^">>)>>)>>,
      \* /([a-zA-Z0-9])(\\[a-zA-Z]+)/g  ->  $1*$2
      <<Alt(<<One(AlphaNum), Lit(<<BS>>), Plus(Letter)>>, << <<1, 1>>, <<2, 3>> >>,
            <<G(1), T(<<"*">>), G(2)>>)>>>>

\* a power between a trig name and its argument (lines 46-54); group 1 is the
\* power and group 2 the argument
trigPowerRules ==
    <<\* /\\(sin|...)\^\{([^}]+)\}([a-zA-Z])/g  ->  ($1($3))^($2)
      [k \in 1..Len(trigNames) |->
          Alt(<<Lit(<<BS>> \o trigNames[k] \o <<"^","{">>), NotPlus({"}"}), Lit(<<"}">>), One(Letter)>>,
              << <<2, 2>>, <<4, 4>> >>,
              <<T(<<"(">> \o trigNames[k] \o <<"(">>), G(2), T(<<")",")","^","(">>), G(1), T(<<")">>)>>)],
      \* /\\(sin|...)\^(\d+)([a-zA-Z])/g  ->  ($1($3))^$2
      [k \in 1..Len(trigNames) |->
          Alt(<<Lit(<<BS>> \o trigNames[k] \o <<"^">>), Plus(Digit), One(Letter)>>,
              << <<2, 2>>, <<3, 3>> >>,
              <<T(<<"(">> \o trigNames[k] \o <<"(">>), G(2), T(<<")",")","^">>), G(1)>>)],
      \* /\\(sin|...)\^\{([^}]+)\}\s*\(([^)]+)\)/g  ->  ($1($3))^($2)
      [k \in 1..Len(trigNames) |->
          Alt(<<Lit(<<BS>> \o trigNames[k] \o <<"^","{">>), NotPlus({"}"}), Lit(<<"}">>), Star(Space),
                Lit(<<"(">>), NotPlus({")"}), Lit(<<")">>)>>,
              << <<2, 2>>, <<6, 6>> >>,
              <<T(<<"(">> \o trigNames[k] \o <<"(">>), G(2), T(<<")",")","^","(">>), G(1), T(<<")">>)>>)],
      \* /\\(sin|...)\^(\d+)\s*\(([^)]+)\)/g  ->  ($1($3))^$2
      [k \in 1..Len(trigNames) |->
          Alt(<<Lit(<<BS>> \o trigNames[k] \o <<"^">>), Plus(Digit), Star(Space),
                Lit(<<"(">>), NotPlus({")"}), Lit(<<")">>)>>,
              << <<2, 2>>, <<5, 5>> >>,
              <<T(<<"(">> \o trigNames[k] \o <<"(">>), G(2), T(<<")",")","^">>), G(1)>>)]>>

\* the trig functions (lines 57-76)
trigRules ==
    [k \in 1..Len(trigNames) |-> rxCallOf(<<BS>> \o trigNames[k], trigNames[k])]
    \o [k \in 1..3 |-> rxCallOf(<<BS,"a","r","c">> \o trigNames[k], <<"a">> \o trigNames[k])]
    \o [k \in 1..Len(trigNames) |-> rxSpacedLetter(<<BS>> \o trigNames[k], trigNames[k])]
    \o <<\* /\\(sin|...)([a-zA-Z])/g  ->  $1($2)
         [k \in 1..Len(trigNames) |->
             Alt(<<Lit(<<BS>> \o trigNames[k]), One(Letter)>>, << <<2, 2>> >>,
                 call(trigNames[k]))],
         \* /\\(sin|...)\s*/g  ->  $1
         [k \in 1..Len(trigNames) |->
             Alt(<<Lit(<<BS>> \o trigNames[k]), Star(Space)>>, <<>>, <<T(trigNames[k])>>)]>>

\* \ln, the natural logarithm, is nerdamer's log (lines 80-90)
lnRules ==
    <<rxCallOf(<<BS,"l","n">>, <<"l","o","g">>), rxSpacedLetter(<<BS,"l","n">>, <<"l","o","g">>), rxAdjacentLetter(<<BS,"l","n">>, <<"l","o","g">>),
      \* /\\ln\s*$/g and /\\ln\b/g  ->  log
      <<Alt(<<Lit(<<BS,"l","n">>), Star(Space), Eos>>, <<>>, <<T(<<"l","o","g">>)>>)>>,
      <<Alt(<<Lit(<<BS,"l","n">>), NotAhead(WordChar)>>, <<>>, <<T(<<"l","o","g">>)>>)>>>>

\* \log, base 10, is log10 (lines 93-97)
logRules ==
    <<rxCallOf(tLog, <<"l","o","g","1","0">>), rxSpacedLetter(tLog, <<"l","o","g","1","0">>), rxAdjacentLetter(tLog, <<"l","o","g","1","0">>),
      \* /\\log\b/g  ->  log10
      <<Alt(<<Lit(tLog), NotAhead(WordChar)>>, <<>>, <<T(<<"l","o","g","1","0">>)>>)>>>>

\* e^x is exp(x) (lines 102-109)
expRules ==
    <<rxCallOf(<<BS,"e","x","p">>, <<"e","x","p">>),
      \* /\\exp\s*/g  ->  exp
      <<Alt(<<Lit(<<BS,"e","x","p">>), Star(Space)>>, <<>>, <<T(<<"e","x","p">>)>>)>>,
      \* /e\^\(([^)]+)\)/g  ->  exp($1)
      <<Alt(<<Lit(<<"e","^","(">>), NotPlus({")"}), Lit(<<")">>)>>, << <<2, 2>> >>, call(<<"e","x","p">>))>>,
      \* /e\^([a-zA-Z])(?![a-zA-Z0-9])/g and /e\^(\d+)(?![a-zA-Z0-9])/g  ->  exp($1)
      <<Alt(<<Lit(<<"e","^">>), One(Letter), NotAhead(AlphaNum)>>, << <<2, 2>> >>, call(<<"e","x","p">>))>>,
      <<Alt(<<Lit(<<"e","^">>), Plus(Digit), NotAhead(AlphaNum)>>, << <<2, 2>> >>, call(<<"e","x","p">>))>>>>

\* .replace(/\\/g, '').replace(/\s+/g, '')   (lines 113-114)
cleanupRules ==
    <<Literal(<<BS>>, <<>>), <<Alt(<<Plus(Space)>>, <<>>, <<>>)>>>>

\* expr before the second part of the implicit multiplication (lines 6-115)
algebraText(latex) ==
    Trim(Chain(formattingRules \o implicitProductRules \o trigPowerRules \o trigRules
               \o lnRules \o logRules \o expRules \o cleanupRules, latex))

\* funcNames (line 121)
funcNames ==
    <<<<"s","i","n">>, <<"c","o","s">>, <<"t","a","n">>, <<"c","o","t">>, <<"s","e","c">>, <<"c","s","c">>, <<"l","o","g">>, <<"l","o","g","1","0">>, <<"e","x","p">>, <<"s","q","r","t">>, tAbs,
      <<"a","s","i","n">>, <<"a","c","o","s">>, <<"a","t","a","n">>>>

\* isEndOfFunction (lines 124-134); pos is 0-based
isEndOfFunction(str, pos) ==
    \E k \in 1..Len(funcNames) :
        /\ pos >= Len(funcNames[k]) - 1
        /\ Substring(str, pos - Len(funcNames[k]) + 1, pos + 1) = funcNames[k]

\* a `*` is put before the character at offset i (lines 143-161); the branch
\* for `)(` comes after the branch that takes every `(` and is never reached
insertsProduct(expr, i) ==
    IF i = 0 THEN FALSE
    ELSE IF expr[i + 1] = "("
    THEN expr[i] \in AlphaNum /\ ~isEndOfFunction(expr, i - 1)
    ELSE IF expr[i + 1] \in Letter
    THEN expr[i] = ")" \/ expr[i] \in Digit
    ELSE expr[i + 1] \in Digit /\ expr[i] = ")"

\* the loop that builds result (lines 137-164)
withProducts(expr) ==
    LET result[i \in 0..Len(expr)] ==
            IF i = 0 THEN <<>>
            ELSE result[i - 1] \o (IF insertsProduct(expr, i - 1) THEN <<"*">> ELSE <<>>)
                 \o <<expr[i]>>
    IN result[Len(expr)]

\* lines 167-172
withoutLeadingStar(result) ==
    IF StartsWith(result, <<"*">>) THEN SubSeq(result, 2, Len(result)) ELSE result

latexToNerdamer(latex) ==
    withoutLeadingStar(ReplaceAll(Literal(<<"*","*">>, <<"*">>), withProducts(algebraText(latex))))


(***************************************************************************)
(* latexToNerdamer applied to the texts of the translator's rewrites       *)
(***************************************************************************)
\* highest power written between a trig name and its argument
MaxPower == 3

Powers == {numberText(n) : n \in 2..MaxPower}

TrigNames == {trigNames[k] : k \in 1..Len(trigNames)}

\* the surface forms of a power n of the trig function f applied to x
bracedPowerOfVariable(f, n) == <<BS>> \o f \o <<"^","{">> \o n \o <<"}","x">>
powerOfVariable(f, n) == <<BS>> \o f \o <<"^">> \o n \o <<"x">>
bracedPowerOfCall(f, n) == <<BS>> \o f \o <<"^","{">> \o n \o <<"}","(","x",")">>
powerOfCall(f, n) == <<BS>> \o f \o <<"^">> \o n \o <<"(","x",")">>

TrigPowerTexts ==
    UNION {{bracedPowerOfVariable(f, n), powerOfVariable(f, n),
            bracedPowerOfCall(f, n), powerOfCall(f, n),
            <<BS>> \o f \o <<"^">> \o n \o <<" ","x">>} : f \in TrigNames, n \in Powers}

\* x and an exponential: apart, adjacent, and explicitly multiplied
tSpacedProduct == <<"x"," ","e","^","{","-","2","x","}">>
tAdjacentProduct == <<"x","e","^","{","-","2","x","}">>
tExplicitProduct == <<"x","*","e","^","{","-","2","x","}">>

ProductTexts == {tSpacedProduct, tAdjacentProduct, tExplicitProduct, <<"2","e","^","{","x","}">>, <<"x",BS,"s","i","n","(","x",")">>, <<"e","^","{","x","}">>}

\* numerators and denominators without and with inner brace groups
FlatParts == {<<"1">>, <<"x","+","1">>}
BracedParts == {<<"x","^","{","2","}">>, <<BS,"f","r","a","c","{","1","}","{","2","}">>, <<BS,"s","q","r","t","{","x","}">>}

frac(N, D) == tFrac \o <<"{">> \o N \o <<"}","{">> \o D \o <<"}">>

FractionTexts == {frac(N, D) : N \in FlatParts \cup BracedParts, D \in FlatParts \cup BracedParts}

\* what follows a \ln or a \log
LogArguments == {<<"x">>, <<" ","x">>, <<"(","x",")">>, <<"2">>, <<" ","2">>, <<"(","2",")">>, <<"1","0">>, <<" ","1","0">>, <<"(","x","+","1",")">>, <<>>, <<"+","1">>, <<" ","(","x",")">>}
LogPrefixes == {<<>>, <<"2">>, <<"x","+">>}

tLn == <<BS,"l","n">>

LnTexts == {p \o tLn \o a : p \in LogPrefixes, a \in LogArguments}
LogTexts == {p \o tLog \o a : p \in LogPrefixes, a \in LogArguments}

\* a parenthesized factor followed by another factor
ParenFactors == {<<"(","x","+","1",")">>, <<"(","x","-","1",")">>, <<"(","2","x",")">>}

ParenTexts == Concat(ParenFactors, ParenFactors \cup {<<"2">>, <<"x">>, <<"^","{","2","}","(","x",")">>})

ParserTexts ==
    TrigPowerTexts \cup ProductTexts \cup FractionTexts \cup LnTexts \cup LogTexts \cup ParenTexts

InitParser ==
    /\ hookAtRest
    /\ arg \in ParserTexts
    /\ res = <<>>
    /\ res2 = <<>>
    /\ pc = "translate"

\* what latexToNerdamer returns for each text, computed once
nerdamerTable == [latex \in ParserTexts |-> latexToNerdamer(latex)]

nerdamerOf(latex) ==
    IF latex \in ParserTexts THEN nerdamerTable[latex] ELSE latexToNerdamer(latex)

\* one call of latexToNerdamer
LatexToNerdamer ==
    /\ pc = "translate"
    /\ res' = nerdamerOf(arg)
    /\ pc' = "translated"
    /\ UNCHANGED <<hookVars, arg, res2>>

NextParser == LatexToNerdamer

SpecParser == InitParser /\ [][NextParser]_vars


(***************************************************************************)
(* Properties of latexToNerdamer                                            *)
(***************************************************************************)
\* the power of a call, (f(x))^n or (f(x))^(n)
powerOfCallForms(f, n) ==
    {<<"(">> \o f \o <<"(","x",")",")","^">> \o n, <<"(">> \o f \o <<"(","x",")",")","^","(">> \o n \o <<")">>}

\* C11: a power written between a trig function name and its argument is a
\* power of the call: for every f of sin, cos, tan, cot, sec, csc and every
\* power n, each of the surface forms \f^{n}x, \f^nx, \f^{n}(x) and \f^n(x) is
\* translated to (f(x))^n.
C11_PowerBindsToCall ==
    \A f \in TrigNames, n \in Powers :
        (/\ pc = "translated"
         /\ arg \in {bracedPowerOfVariable(f, n), powerOfVariable(f, n),
                     bracedPowerOfCall(f, n), powerOfCall(f, n)})
            => res \in powerOfCallForms(f, n)

\* C12: the implicit product of a variable and an exponential is made
\* explicit: x e^{-2x} and xe^{-2x} are translated as x*e^{-2x} is, with a `*`
\* between x and the call of exp.
C12_ProductMadeExplicit ==
    (pc = "translated" /\ arg \in {tSpacedProduct, tAdjacentProduct})
        => /\ res = nerdamerOf(tExplicitProduct)
           /\ Includes(res, <<"x","*","e","x","p","(">>)

\* C13: every two-argument fraction \frac{N}{D} becomes (N)/(D), also when N or
\* D contains inner brace groups: no frac and no brace remains in the output.
C13_FractionsRewritten ==
    (pc = "translated" /\ arg \in FractionTexts)
        => /\ ~Includes(res, <<"f","r","a","c">>)
           /\ \A i \in 1..Len(res) : res[i] \notin Braces
           /\ StartsWith(res, <<"(">>)
           /\ Includes(res, <<")","/","(">>)

\* C14: \ln and \log get distinct identifiers that never collide: every \ln
\* becomes a call of log that is not log10, and every \log becomes a call of
\* log10.
C14_LogsNeverCollide ==
    pc = "translated" =>
        /\ arg \in LnTexts => Includes(res, <<"l","o","g">>) /\ ~Includes(res, <<"l","o","g","1","0">>)
        /\ arg \in LogTexts => Includes(res, <<"l","o","g","1","0">>)


(***************************************************************************)
(* utils/symbolic-math.ts and nerdamerToLatex.  The nerdamer library is    *)
(* outside the repository: what each of its calls does, return or throw,   *)
(* is chosen by the environment                                            *)
(***************************************************************************)
\* what result.toTeX() and result.toString() return when they return
TexResults == {<<BS,"f","r","a","c","{","x","^","4","}","{","4","}">>, <<"2"," "," ","x">>, <<" ","x"," ">>}
StringResults == {<<"2","*","x">>}

\* one behaviour of the library during a call: which of its calls throw, and
\* what the rendering calls return otherwise
Backends ==
    [parseThrows : BOOLEAN, computeThrows : BOOLEAN, toTeXThrows : BOOLEAN,
     toStringThrows : BOOLEAN, tex : TexResults, string : StringResults]

\* the outcomes of a call: a returned text, the returned null, or an exception
\* that reaches the caller
returned(kind, text) == [outcome |-> "returned", kind |-> kind, text |-> text]
returnedNull == [outcome |-> "returned", kind |-> "null", text |-> <<>>]
thrown == [outcome |-> "thrown", kind |-> "none", text |-> <<>>]

\* nerdamer(nerdamerExpr): the parsed expression, unless the library throws
nerdamer(nerdamerExpr, b) ==
    IF b.parseThrows THEN thrown ELSE returned("expression", nerdamerExpr)

\* nerdamer.integrate(nerdamerExpr, variable): parses and integrates
integrate(nerdamerExpr, b) ==
    IF b.parseThrows \/ b.computeThrows THEN thrown
    ELSE returned("expression", nerdamerExpr)

\* nerdamerToLatex (latex-parser.ts lines 180-195)
nerdamerToLatex(b) ==
    IF ~b.toTeXThrows THEN returned("tex", Trim(ReplaceAll(rxSpaces, b.tex)))
    ELSE IF ~b.toStringThrows THEN returned("string", b.string)
    ELSE thrown

\* try { ... } catch { return null }
orNull(r) == IF r.outcome = "thrown" THEN returnedNull ELSE r

\* computeSymbolicDerivative (lines 12-27): nerdamer(nerdamerExpr), then
\* nerdamer.diff `order` times, then nerdamerToLatex
computeSymbolicDerivative(expression, order, b) ==
    orNull(IF \/ nerdamer(nerdamerOf(expression), b).outcome = "thrown"
              \/ (order > 0 /\ b.computeThrows)
           THEN thrown
           ELSE nerdamerToLatex(b))

\* computeSymbolicIntegral (lines 32-42): nerdamer.integrate parses and
\* integrates latexToNerdamer(expression) in one call, then nerdamerToLatex
computeSymbolicIntegral(expression, b) ==
    orNull(IF integrate(nerdamerOf(expression), b).outcome = "thrown"
           THEN thrown
           ELSE nerdamerToLatex(b))

SymbolicTexts == LnTexts

InitSymbolic ==
    /\ hookAtRest
    /\ arg \in SymbolicTexts
    /\ res = <<>>
    /\ res2 = <<>>
    /\ pc = "symbolic"

\* a call of computeSymbolicDerivative; res2 keeps what the library did
ComputeSymbolicDerivative(order, b) ==
    /\ pc = "symbolic"
    /\ res' = computeSymbolicDerivative(arg, order, b)
    /\ res2' = b
    /\ pc' = "derivative computed"
    /\ UNCHANGED <<hookVars, arg>>

\* a call of computeSymbolicIntegral
ComputeSymbolicIntegral(b) ==
    /\ pc = "symbolic"
    /\ res' = computeSymbolicIntegral(arg, b)
    /\ res2' = b
    /\ pc' = "integral computed"
    /\ UNCHANGED <<hookVars, arg>>

NextSymbolic ==
    \/ \E order \in 0..MaxOrder, b \in Backends : ComputeSymbolicDerivative(order, b)
    \/ \E b \in Backends : ComputeSymbolicIntegral(b)

SpecSymbolic == InitSymbolic /\ [][NextSymbolic]_vars

\* C15: computeSymbolicDerivative and computeSymbolicIntegral never let an
\* exception reach their caller, and whenever the backend parse, the
\* differentiate/integrate call or the rendering of the result throws, the
\* caller receives null and never a string that is not typeset.
C15_NullWheneverSomethingThrows ==
    pc \in {"derivative computed", "integral computed"} =>
        /\ res.outcome = "returned"
        /\ res.kind \in {"tex", "null"}
        /\ (res2.parseThrows \/ res2.toTeXThrows) => res.kind = "null"
        /\ (res2.computeThrows /\ pc = "integral computed") => res.kind = "null"



(***************************************************************************)
(* The directives of a definite integral                                    *)
(***************************************************************************)
\* every directive id that processExpression derives from an expression id
directiveIds(id) ==
    {id} \cup {cleanupList(safeIdOf(id))[k] : k \in DOMAIN cleanupList(safeIdOf(id))}

\* the directives the engine holds for the expression of the last call
heldFor(id) == DOMAIN calc \cap directiveIds(id)

\* s is one parenthesized group: its first parenthesis closes at its end
wrapped(s) ==
    /\ Len(s) >= 2
    /\ s[1] = "("
    /\ s[Len(s)] = ")"
    /\ \A j \in 2..(Len(s) - 1) :
          Cardinality({k \in 2..j : s[k] = ")"}) <= Cardinality({k \in 2..j : s[k] = "("})

\* a body as the parent curve shows it: trimmed, runs of white space
\* collapsed, and without a pair of parentheses around the whole of it
shownBody(B) ==
    IF wrapped(singleSpaced(Trim(B)))
    THEN Trim(SubSeq(singleSpaced(Trim(B)), 2, Len(singleSpaced(Trim(B))) - 1))
    ELSE singleSpaced(Trim(B))

\* the three directives of \int_{L}^{U} B dx, the parent curve being y = P
threeDirectives(L, U, P) ==
    /\ heldFor(locals.id) = {curveId(safeIdOf(locals.id)), shadeId(safeIdOf(locals.id)),
                             valId(safeIdOf(locals.id))}
    /\ calc[curveId(safeIdOf(locals.id))].latex = <<"y"," ","="," ">> \o P
    /\ calc[curveId(safeIdOf(locals.id))].lineStyle = "DOTTED"
    /\ Includes(calc[shadeId(safeIdOf(locals.id))].latex, L \o <<" ",BS,"l","e"," ","x"," ",BS,"l","e"," ">> \o U)
    /\ calc[valId(safeIdOf(locals.id))].hidden
    /\ EndsWith(calc[valId(safeIdOf(locals.id))].latex, <<" ","="," ">> \o enteredText)

EditTexts == VisibilityTexts

\* the early returns of handleInput (lines 1069-1077)
returnsEarly(id, value) ==
    \/ find(expressions, id) # 0 /\ expressions[find(expressions, id)].latex = value
    \/ id \in visibilityUpdateInProgress

\* one call of handleInput(id, value) till it returns (lines 1066-1084); arg
\* keeps the arguments of the last call
TypeText(id, value) ==
    /\ pc = "hook"
    /\ arg' = <<id, value>>
    /\ IF returnsEarly(id, value)
       THEN UNCHANGED <<expressions, calc, helpers, observers, locals>>
       ELSE becomes(afterInput(id, value, find(expressions, id)))
    /\ UNCHANGED <<visibilityUpdateInProgress, timers, res, res2, pc>>

InitEditing ==
    /\ hookAtRest
    /\ arg = <<>>
    /\ res = <<>>
    /\ res2 = <<>>
    /\ pc = "hook"

NextEditing ==
    \E id \in ids(expressions) :
        \/ \E value \in EditTexts : TypeText(id, value)
        \/ \E mode \in VisibilityModes : SetVisibilityMode(id, mode)
        \/ ToggleVisibility(id)
        \/ ClearVisibilityFlag(id)

SpecEditing == InitEditing /\ [][NextEditing]_vars

\* the directives processExpression emits for a text when the engine holds none
emittedFor(id, text) ==
    emitDirectives(emptyMap, analysisOf(text), id, safeIdOf(id), "#2d70b3", TRUE, "all")

\* the text of each directive in c
textsOf(c, eids) == [eid \in eids |-> c[eid].latex]

\* C17: re-processing replaces rather than accumulates: after any sequence of
\* edits of an expression, the engine holds under the ids derived from it
\* exactly the directives emitted for the latest text, and none left over from
\* an earlier text of another construct.
C17_NoDirectiveLeftOver ==
    \A k \in DOMAIN expressions :
        textsOf(calc, heldFor(expressions[k].id))
            = IF Trim(expressions[k].latex) = <<>> THEN emptyMap
              ELSE textsOf(emittedFor(expressions[k].id, expressions[k].latex),
                           DOMAIN emittedFor(expressions[k].id, expressions[k].latex))

\* C18: the last call wins: after handleInput(id, v) has returned, under any
\* interleaving with toggleVisibility, setVisibilityMode and their timers, the
\* stored latex of the expression is v; no edit is dropped.
C18_LastCallWins ==
    \A k \in DOMAIN expressions :
        (Len(arg) = 2 /\ arg[1] = expressions[k].id) => expressions[k].latex = arg[2]


(***************************************************************************)
(* The numeric results: the engine notifies the helpers' observers          *)
(***************************************************************************)
\* what a callback displays for helper.numericValue (lines 1045-1054)
DisplayedValues == {"undefined", "0", "2.5"}

\* the callback registered at lines 1043-1058 runs for the helper h, whose
\* numericValue is displayed as val: it writes the result of the expression
\* h.id, whether or not h is still the helper in helpersRef
NumericValue(h, val) ==
    /\ pc = "hook"
    /\ h \in observers
    /\ expressions' = [k \in DOMAIN expressions |->
                          IF expressions[k].id = h.id
                          THEN [expressions[k] EXCEPT !.result = val]
                          ELSE expressions[k]]
    /\ UNCHANGED <<calc, helpers, observers, visibilityUpdateInProgress, timers, locals,
                   arg, res, res2, pc>>

NextObserving ==
    \/ \E id \in ids(expressions), value \in EditTexts : TypeText(id, value)
    \/ \E h \in observers, val \in DisplayedValues : NumericValue(h, val)

SpecObserving == InitEditing /\ [][NextObserving]_vars

\* h is not the helper that processExpression created for the latest text
superseded(h) ==
    \/ safeIdOf(h.id) \notin DOMAIN helpers
    \/ helpers[safeIdOf(h.id)] # h

\* C19: once processExpression has replaced or dropped the helper of an
\* expression, a numericValue notification of the superseded helper never
\* changes the expression's displayed result.
C19_SupersededHelperIsSilent ==
    [][\A h \in observers, val \in DisplayedValues :
          (superseded(h) /\ NumericValue(h, val)) => UNCHANGED expressions]_vars


(***************************************************************************)
(* parseGroup on brace groups that are closed and that are not              *)
(***************************************************************************)
BoundMarks == {<<"_">>, <<"^">>}

BraceGroups == {<<"{">>, <<"{","a">>, <<"{","a","{","b","}">>, <<"{","{","}">>, <<"{","a","}">>, <<"{","a","{","b","}","}">>, <<"{","}">>}

GroupContinuations == {<<>>, <<"x">>, <<" ","x"," ","d","x">>}

\* the text lead, mark, group, rest
groupText(t) == t.lead \o t.mark \o t.group \o t.rest

\* the offset of the group: that of the character after the mark
groupOffset(t) == Len(t.lead) + 1

InitGroup ==
    /\ hookAtRest
    /\ arg \in [lead : Leads, mark : BoundMarks, group : BraceGroups, rest : GroupContinuations]
    /\ res = <<>>
    /\ res2 = <<>>
    /\ pc = "group"

\* parseGroup (lines 690-712) with the scan position on the group
ParseGroup ==
    /\ pc = "group"
    /\ res' = parseGroup(groupText(arg), groupOffset(arg))
    /\ pc' = "group parsed"
    /\ UNCHANGED <<hookVars, arg, res2>>

\* parseBounds (lines 684-733) from the mark on
ParseBounds ==
    /\ pc = "group parsed"
    /\ res2' = parseBounds(Len(arg.lead), groupText(arg))
    /\ pc' = "bounds parsed"
    /\ UNCHANGED <<hookVars, arg, res>>

NextGroup == ParseGroup \/ ParseBounds

SpecGroup == InitGroup /\ [][NextGroup]_vars

\* the brace that opens s is not closed before the end of s
neverCloses(s) ==
    /\ s # <<>>
    /\ s[1] = "{"
    /\ \A j \in 1..Len(s) :
          Cardinality({k \in 1..j : s[k] = "}"}) < Cardinality({k \in 1..j : s[k] = "{"})

\* C20: parseGroup fails soft on an unbalanced brace group: when the brace at
\* the scan position is not closed before the end of the text, it returns the
\* empty string and leaves the scan offset where it was, so that parseBounds
\* reports an end offset that has not consumed the rest of the text.
C20_FailsSoftWithOffsetUnchanged ==
    (pc = "bounds parsed" /\ neverCloses(arg.group \o arg.rest)) =>
        /\ res.val = <<>>
        /\ res.i = groupOffset(arg)
        /\ res2.end = groupOffset(arg)


(***************************************************************************)
(* Properties of the derivative branch                                      *)
(***************************************************************************)
\* C21: an evaluation suffix is accepted only if the text from the rightmost
\* |_{ to the end of the body is one complete, balanced brace group: when more
\* text, or a brace that the group does not open, follows the group, as in
\* x|_{x=3}+y^{2}, no evaluation point is extracted and the text stays in the
\* body.
C21_OnlyACompleteGroupIsASuffix ==
    \A m \in OrderMarks, V \in Variables, B \in SpacedBodies, s \in FollowedSuffixes :
        (/\ enteredText = derivativeHead(m, V) \o B \o s
         /\ locals.branch = "derivative")
        => /\ ~locals.isEvaluation
           /\ locals.targetVal = <<>>
           /\ EndsWith(locals.body, s)
           /\ ~holds(valId(safeIdOf(locals.id)))


\* C22: every text classified as a derivative has an order of at least 1, an
\* explicit order 0 as in \frac{d^0}{dx^0} f included.
C22_OrderAtLeastOne ==
    locals.branch = "derivative" => locals.order >= 1

\* the order marks of the two groups differ, or only one group has one
UnevenMarks == {m \in OrderMarks \cup OddMarks : m[1] # m[2]}

\* C23: a text is a derivative only when the order of the bottom group, if
\* present, matches that of the top group: \frac{d^m}{dV^n} B with m different
\* from n, or with an order on one side only, is not taken as a derivative.
C23_OrdersMatch ==
    \A m \in UnevenMarks, V \in Variables :
        StartsWith(enteredText, derivativeHead(m, V)) => locals.branch # "derivative"


(***************************************************************************)
(* Properties of the second implicit-multiplication pass                    *)
(***************************************************************************)
\* C24: the final pass of latexToNerdamer puts a `*` after a closing
\* parenthesis that is directly followed by a digit or by an opening
\* parenthesis: no output contains `)(` or a `)` directly followed by a digit,
\* so (x+1)(x-1) becomes (x+1)*(x-1).
C24_ProductAfterClosingParenthesis ==
    pc = "translated" =>
        /\ ~Includes(res, <<")","(">>)
        /\ \A i \in 1..(Len(res) - 1) : ~(res[i] = ")" /\ res[i + 1] \in Digit)
        /\ arg = <<"(","x","+","1",")","(","x","-","1",")">> => res = <<"(","x","+","1",")","*","(","x","-","1",")">>


(***************************************************************************)
(* Properties of the plain branch                                           *)
(***************************************************************************)
\* C25: for a plain text the directive under the expression's own id carries
\* the canonical text unchanged, but for the prefix y= that a text without `=`
\* may get; no other part of the text, such as a trailing dx, is removed or
\* rewritten.
C25_PlainTextUnchanged ==
    locals.branch = "plain" =>
        /\ holds(locals.id)
        /\ \/ calc[locals.id].latex = locals.clean
           \/ /\ calc[locals.id].latex = <<"y","=">> \o locals.clean
              /\ ~Includes(locals.clean, <<"=">>)


(***************************************************************************)
(* Properties of the integral branch: the differential variable             *)
(***************************************************************************)
\* the character at position i of s belongs to a command token \name
inCommand(s, i) ==
    \E j \in 1..(i - 1) : s[j] = BS /\ \A k \in (j + 1)..i : s[k] \in Letter

\* s with every occurrence of the one-letter variable V replaced by the text
\* `by`, the letters of command tokens left as they are
asVariable(s, V, by) ==
    LET out[i \in 0..Len(s)] ==
            IF i = 0 THEN <<>>
            ELSE out[i - 1] \o (IF s[i] = V[1] /\ ~inCommand(s, i) THEN by ELSE <<s[i]>>)
    IN out[Len(s)]

\* the canonical text \int B dV has been entered
enteredIndefinite(B, V) ==
    /\ enteredText = tInt \o <<" ">> \o B \o differential(V)
    /\ locals.clean = enteredText

\* C26: in the integral branch the differential variable is substituted as a
\* variable, not as a character: the parent curve is the body with every
\* occurrence of the variable V replaced by x, the accumulator of an indefinite
\* integral is the body with V replaced by t, and the command tokens whose
\* names contain that letter, such as \tan for V = t, are left intact.
C26_VariableNotCharacter ==
    \A B \in Bodies, V \in DifferentialVariables :
        /\ \A L \in LowerValues, U \in UpperValues :
              enteredIntegral(L, U, B, V) =>
                  calc[curveId(safeIdOf(locals.id))].latex
                      = <<"y"," ","="," ">> \o shownBody(asVariable(B, V, <<"x">>))
        /\ enteredIndefinite(B, V) =>
              /\ calc[curveId(safeIdOf(locals.id))].latex
                     = <<"y"," ","="," ">> \o singleSpaced(Trim(asVariable(B, V, <<"x">>)))
              /\ calc[locals.id].latex
                     = <<"y"," ","="," ",BS,"i","n","t","_","{","0","}","^","{","x","}"," ">> \o singleSpaced(Trim(asVariable(B, V, <<"t">>))) \o <<" ","d","t">>


(***************************************************************************)
(* Properties of the displayed result                                       *)
(***************************************************************************)
\* C27: no stale numeric result is shown: when processExpression has run for a
\* non-blank text for which it creates no helper, the result of the expression
\* is absent, whatever an earlier text of the expression had produced.
C27_NoStaleResult ==
    [][\A id \in ids(expressions), value \in EditTexts :
          (/\ TypeText(id, value)
           /\ ~returnsEarly(id, value)
           /\ Trim(value) # <<>>
           /\ ~locals'.shouldObserve)
          => \A k \in DOMAIN expressions' :
                expressions'[k].id = id => expressions'[k].result = "undefined"]_vars


(***************************************************************************)
(* The expression list: expressions are added and removed                   *)
(***************************************************************************)
\* ids that Math.random().toString(36).substr(2, 9) gives (line 1093)
NewIds == {<<"k","3","f","9">>}

\* DEFAULT_COLORS that getRandomColor picks from
NewColors == {"#c74440"}

\* addExpr (lines 1092-1095)
AddExpr(id, color) ==
    /\ pc = "hook"
    /\ id \notin ids(expressions)
    /\ expressions' = Append(expressions,
                             [id |-> id, latex |-> <<>>, color |-> color, visible |-> TRUE,
                              visibilityMode |-> "all", result |-> "undefined"])
    /\ timers' = [i \in DOMAIN timers \cup {id} |-> IF i \in DOMAIN timers THEN timers[i] ELSE 0]
    /\ UNCHANGED <<calc, helpers, observers, visibilityUpdateInProgress, locals,
                   arg, res, res2, pc>>

\* expressions.filter(e => e.id !== id)
without(exprs, id) ==
    LET keep == {k \in DOMAIN exprs : exprs[k].id # id}
        nth(n) == CHOOSE k \in keep : Cardinality({j \in keep : j <= k}) = n
    IN [n \in 1..Cardinality(keep) |-> exprs[nth(n)]]

\* variant: the directive under the expression's own id is kept
removedIdsButOwn(id) == cleanupList(safeIdOf(id))

\* the directives that removeExpr removes (lines 1224-1232)
removedIds(id) == <<id>> \o cleanupList(safeIdOf(id))

\* removeExpr (lines 1217-1234)
RemoveExpr(id) ==
    /\ pc = "hook"
    /\ expressions' = without(expressions, id)
    /\ helpers' = [s \in DOMAIN helpers \ {safeIdOf(id)} |-> helpers[s]]
    /\ calc' = removeAll(calc, removedIds(id))
    /\ UNCHANGED <<observers, visibilityUpdateInProgress, timers, locals, arg, res, res2, pc>>

\* the texts typed into the expressions of the list, one of each construct
ListTexts == EditTexts \cup {<<BS,"f","r","a","c","{","d","}","{","d","x","}","x","^","{","2","}">>}

NextList ==
    \/ \E id \in NewIds, color \in NewColors : AddExpr(id, color)
    \/ \E id \in ids(expressions), value \in ListTexts : HandleInput(id, value)
    \/ \E id \in ids(expressions) : RemoveExpr(id)

SpecList == InitEditing /\ [][NextList]_vars

\* the texts typed while what is shown of the expressions changes
ModeTexts == {<<>>, <<BS,"i","n","t","_","{","0","}","^","{","1","}"," ","x","^","{","2","}"," ","d","x">>}

\* expressions are added, edited, shown, hidden and removed
NextModes ==
    \/ \E id \in NewIds, color \in NewColors : AddExpr(id, color)
    \/ \E id \in ids(expressions), value \in ModeTexts : HandleInput(id, value)
    \/ \E id \in ids(expressions), mode \in VisibilityModes : SetVisibilityMode(id, mode)
    \/ \E id \in ids(expressions) : ToggleVisibility(id)
    \/ \E id \in DOMAIN timers : ClearVisibilityFlag(id)
    \/ \E id \in ids(expressions) : RemoveExpr(id)

SpecModes == InitEditing /\ [][NextModes]_vars


(***************************************************************************)
(* What is shown of an expression, and its visible flag                     *)
(***************************************************************************)
\* expression k of the list is marked visible exactly when its mode is not 'none'
flagMatchesMode(exprs, k) == exprs[k].visible = (exprs[k].visibilityMode # "none")

\* toggleVisibility(id) flipped the flag and left the expression in ('all', visible)
\* or in ('none', not visible)
toggledBetweenAllAndNone(id) ==
    LET k == find(expressions, id)
        after == expressions'[k]
    IN /\ after.visible = ~expressions[k].visible
       /\ \/ after.visibilityMode = "all" /\ after.visible
          \/ after.visibilityMode = "none" /\ ~after.visible

\* C28: in every state reached by addExpr, toggleVisibility and setVisibilityMode
\* (edits and removals interleaved), every expression of the list has
\* visible = (visibilityMode is not 'none'), and every toggleVisibility step
\* flips the flag and ends in ('all', visible) or ('none', not visible).
C28_VisibleIffModeNotNone ==
    /\ [](\A k \in DOMAIN expressions : flagMatchesMode(expressions, k))
    /\ [][\A id \in ids(expressions) :
            ToggleVisibility(id) => toggledBetweenAllAndNone(id)]_vars

\* an added expression shows its parent curve only while the first one is hidden
C28_Witness ==
    /\ Len(expressions) = 2
    /\ expressions[1].visibilityMode = "none" /\ ~expressions[1].visible
    /\ expressions[2].visibilityMode = "parent" /\ expressions[2].visible
    /\ visibilityUpdateInProgress = ids(expressions)


(***************************************************************************)
(* Removing an expression                                                   *)
(***************************************************************************)
\* the directive id eid is the expression's id or ends with its safe id
derivedFrom(eid, id) == eid = id \/ EndsWith(eid, <<"-">> \o safeIdOf(id))

\* after removeExpr(id): no directive of the expression, no helper, not in the list
removedAltogether(id) ==
    /\ \A eid \in DOMAIN calc' : ~derivedFrom(eid, id)
    /\ safeIdOf(id) \notin DOMAIN helpers'
    /\ id \notin ids(expressions')

\* C29: after removeExpr(id), whatever construct the expression last had, the
\* engine holds no directive whose id is id or is derived from id, the helper
\* map has no entry for it, and the expression is not in the expression list.
C29_RemovedLeavesNothing ==
    [][\A id \in ids(expressions) : RemoveExpr(id) => removedAltogether(id)]_vars

\* the first expression, a derivative evaluated at a point, has been removed
C29_Witness ==
    /\ <<"1">> \notin ids(expressions)
    /\ locals.id = <<"1">>
    /\ locals.branch = "derivative"
    /\ locals.isEvaluation
    /\ \A eid \in DOMAIN calc : ~derivedFrom(eid, <<"1">>)


(***************************************************************************)
(* Expressions are isolated from one another                                *)
(***************************************************************************)
\* the directive ids that the step adds, changes or removes
touchedDirectives ==
    {eid \in DOMAIN calc \cup DOMAIN calc' :
        \/ eid \notin DOMAIN calc
        \/ eid \notin DOMAIN calc'
        \/ calc[eid] # calc'[eid]}

\* the helper entries that the step adds, changes or removes
touchedHelpers ==
    {s \in DOMAIN helpers \cup DOMAIN helpers' :
        \/ s \notin DOMAIN helpers
        \/ s \notin DOMAIN helpers'
        \/ helpers[s] # helpers'[s]}

\* a step on the expression `id` leaves the expression `other` as it was
leavesAlone(id, other) ==
    /\ \A eid \in touchedDirectives : derivedFrom(eid, id) /\ ~derivedFrom(eid, other)
    /\ touchedHelpers \subseteq {safeIdOf(id)} \ {safeIdOf(other)}
    /\ find(expressions', other) # 0
    /\ expressions'[find(expressions', other)] = expressions[find(expressions, other)]

\* C30: for two expressions with distinct ids, processExpression (through
\* handleInput), toggleVisibility, setVisibilityMode or removeExpr applied to one
\* adds, changes or removes only directives and helper entries derived from its
\* id, and leaves the other's directives, helper entry, latex and result unchanged.
C30_Isolation ==
    [][\A id \in ids(expressions) : \A other \in ids(expressions) \ {id} :
         (\/ \E value \in ModeTexts : HandleInput(id, value)
          \/ \E mode \in VisibilityModes : SetVisibilityMode(id, mode)
          \/ ToggleVisibility(id)
          \/ RemoveExpr(id)) => leavesAlone(id, other)]_vars

\* both expressions hold the directives of a definite integral, one of them hidden
C30_Witness ==
    /\ Len(expressions) = 2
    /\ \A k \in DOMAIN expressions :
          /\ expressions[k].latex = <<BS,"i","n","t","_","{","0","}","^","{","1","}"," ","x","^","{","2","}"," ","d","x">>
          /\ shadeId(safeIdOf(expressions[k].id)) \in DOMAIN calc
    /\ expressions[1].visibilityMode = "none"
    /\ expressions[2].visibilityMode = "all"

====
